---- MODULE Spec2Model ----
(***************************************************************************)
(* State-machine model of the genfile format generators                    *)
(* (github.com/hailam/genfile): one Generate call per behaviour, its local *)
(* variables in loc, the file system in fs, the structure of the written   *)
(* file in out.                                                            *)
(***************************************************************************)
EXTENDS Integers, Sequences, FiniteSets, TLC

VARIABLES
    gen,        \* which generator's Generate is running
    pc,         \* position inside Generate
    targetSize, \* the size argument of Generate (sizeBytes / size / targetSize)
    err,        \* "" while running or on success, else the kind of error returned
    fs,         \* file system: path name -> [exists, len], len in bytes
    loc,        \* the local variables of the running Generate
    out,        \* structure of the bytes written to the output path
    run,        \* 1 for the first call, 2 for a repeated call with the same arguments
    firstLen    \* length of the file the first call left at the output path

vars == <<gen, pc, targetSize, err, fs, loc, out, run, firstLen>>

NoFile == [exists |-> FALSE, len |-> 0]

File(n) == [exists |-> TRUE, len |-> n]

NoOut == [kind |-> "none"]

EmptyFs == [p \in {"path", "tempPath"} |-> NoFile]

Max(a, b) == IF a >= b THEN a ELSE b

Min(a, b) == IF a <= b THEN a ELSE b

RECURSIVE Pow2(_)
Pow2(n) == IF n = 0 THEN 1 ELSE 2 * Pow2(n - 1)

RECURSIVE Zeros(_)
Zeros(n) == IF n <= 0 THEN <<>> ELSE <<0>> \o Zeros(n - 1)

(***************************************************************************)
(* DWG writer: the bit writer and the bit-coded data types                 *)
(***************************************************************************)

\* a | b on bytes
RECURSIVE BitOr(_, _)
BitOr(a, b) ==
    IF a = 0 THEN b
    ELSE IF b = 0 THEN a
    ELSE (IF (a % 2 = 1) \/ (b % 2 = 1) THEN 1 ELSE 0) + 2 * BitOr(a \div 2, b \div 2)

\* bw := &bitWriter{} followed by the two reserved length bytes of a record
NewRecord == [buf |-> <<0, 0>>, bitPos |-> 0]

flushByteAlign(w) ==
    IF w.bitPos # 0
    THEN [buf |-> Append(w.buf, 0), bitPos |-> 0]
    ELSE w

RECURSIVE writeBits(_, _, _)
writeBits(w, value, bits) ==
    IF bits = 0 THEN w
    ELSE LET w1    == IF w.bitPos = 0 THEN [w EXCEPT !.buf = Append(@, 0)] ELSE w
             space == 8 - w1.bitPos
             last  == Len(w1.buf)
         IN  IF bits <= space
             THEN LET shiftPos == space - bits
                      part     == (value % Pow2(bits)) * Pow2(shiftPos)
                  IN  [buf    |-> [w1.buf EXCEPT ![last] = BitOr(@, part % 256)],
                       bitPos |-> IF w1.bitPos + bits = 8 THEN 0 ELSE w1.bitPos + bits]
             ELSE LET part == value % Pow2(space)
                  IN  writeBits([buf    |-> [w1.buf EXCEPT ![last] = BitOr(@, part % 256)],
                                 bitPos |-> 0],
                                value \div Pow2(space), bits - space)

writeBitShort(w, val) ==
    IF val = 0 THEN writeBits(w, 2, 2)
    ELSE IF val = 256 THEN writeBits(w, 3, 2)
    ELSE IF val >= 0 /\ val < 256 THEN writeBits(writeBits(w, 1, 2), val, 8)
    ELSE writeBits(writeBits(writeBits(w, 0, 2), val % 256, 8), (val \div 256) % 256, 8)

\* floor(log2(n)) for n >= 1
RECURSIVE Log2(_)
Log2(n) == IF n <= 1 THEN 0 ELSE 1 + Log2(n \div 2)

\* math.Float64bits of an integral value with 2 <= |v| < 4096, as the eight
\* bytes the writer emits (least significant first): the low five are zero and
\* the top three hold the sign, the biased exponent and the leading mantissa bits.
Float64bits(v) ==
    LET a     == IF v < 0 THEN -v ELSE v
        e     == Log2(a)
        top24 == (IF v < 0 THEN Pow2(23) ELSE 0) + (1023 + e) * Pow2(12)
                 + (a - Pow2(e)) * Pow2(12 - e)
    IN  <<0, 0, 0, 0, 0, top24 % 256, (top24 \div 256) % 256, top24 \div 65536>>

\* for i := 0; i < 8; i++ { writeBits(byte i, 8) }
RECURSIVE writeBytes(_, _)
writeBytes(w, bytes) ==
    IF bytes = <<>> THEN w
    ELSE LET w1 == writeBits(w, Head(bytes), 8)
         IN  IF w1.bitPos \in 0..7 THEN writeBytes(w1, Tail(bytes)) ELSE w1

writeBitDouble(w, val) ==
    IF val = 0 THEN writeBits(w, 2, 2)
    ELSE IF val = 1 THEN writeBits(w, 3, 2)
    ELSE writeBytes(writeBits(w, 0, 2), Float64bits(val))

\* the bytes of a handle value, least significant first (empty for 0)
RECURSIVE HandleBytes(_)
HandleBytes(h) == IF h = 0 THEN <<>> ELSE <<h % 256>> \o HandleBytes(h \div 256)

writeHandleRef(w, refHandle) ==
    IF refHandle = 0
    THEN [buf |-> Append(w.buf, 0), bitPos |-> 0]
    ELSE [buf |-> w.buf \o <<Len(HandleBytes(refHandle))>> \o HandleBytes(refHandle),
          bitPos |-> 0]

\* bw.buf = append(bw.buf, bytes...): the cursor is left as it is
appendRaw(w, bytes) == [w EXCEPT !.buf = @ \o bytes]

\* a length-prefixed name
appendText(w, text) == appendRaw(w, <<Len(text)>> \o text)

\* the CRC placeholder, then the length field patched to len(buf) - 4
closeRecord(w) ==
    LET b      == w.buf \o <<0, 0>>
        objLen == Len(b) - 4
    IN  [b EXCEPT ![1] = objLen % 256, ![2] = (objLen \div 256) % 256]

(***************************************************************************)
(* DWG writer: sections and object records                                 *)
(***************************************************************************)

startSentinel == <<48, 132, 224, 220, 2, 33, 199, 86, 160, 131, 151, 71, 177, 146, 204, 160>>

endSentinel == <<43, 132, 222, 49, 215, 108, 96, 64, 172, 219, 191, 246, 237, 195, 85, 254>>

\* len(header) + len(headerDir)
baseOffset == 128 + 108

\* start sentinel, zeros up to 128 - 16, end sentinel
summarySize == Max(Len(startSentinel), 128 - 16) + Len(endSentinel)

\* start sentinel, zeros up to 0x400 - 16, end sentinel
previewSize == Max(Len(startSentinel), 1024 - 16) + Len(endSentinel)

classesSize == Len(startSentinel) + Len(endSentinel)

headerVarsSize == Len(startSentinel) + Len(endSentinel)

blockCtrlHandle == 1

modelSpaceBlockHdl == 2

layerCtrlHandle == 3

layer0Handle == 4

ltypeCtrlHandle == 5

contLtypeHandle == 6

firstEntityHandle == 256

\* "*Model_Space"
nameModelSpace == <<42, 77, 111, 100, 101, 108, 95, 83, 112, 97, 99, 101>>

\* "0"
nameLayer0 == <<48>>

\* "Continuous"
nameContinuous == <<67, 111, 110, 116, 105, 110, 117, 111, 117, 115>>

\* "Solid"
descSolid == <<83, 111, 108, 105, 100>>

\* BLOCK CONTROL (0x30), LAYER CONTROL (0x32), LTYPE CONTROL (0x38): type, count 1, no owner
controlRecord(type) ==
    closeRecord(writeHandleRef(flushByteAlign(writeBitShort(writeBitShort(NewRecord, type), 1)), 0))

\* BLOCK RECORD (0x31) of the Model Space with the given owned object count
blockRecord(count) ==
    LET w1 == appendText(flushByteAlign(writeBitShort(NewRecord, 49)), nameModelSpace)
        w2 == flushByteAlign(writeBitShort(writeBitShort(w1, 0), count))
        w3 == writeHandleRef(writeHandleRef(writeHandleRef(w2, blockCtrlHandle), 0), 0)
    IN  closeRecord(w3)

\* LAYER "0" (0x33)
layerRecord ==
    LET w1 == appendText(flushByteAlign(writeBitShort(NewRecord, 51)), nameLayer0)
        w2 == flushByteAlign(writeBitShort(writeBitShort(w1, 0), 7))
        w3 == writeHandleRef(w2, contLtypeHandle)
        w4 == flushByteAlign(writeBitShort(writeBitShort(w3, 0), 0))
        w5 == writeHandleRef(writeHandleRef(writeHandleRef(w4, layerCtrlHandle), 0), 0)
    IN  closeRecord(w5)

\* LINETYPE "Continuous" (0x39)
ltypeRecord ==
    LET w1 == appendText(flushByteAlign(writeBitShort(NewRecord, 57)), nameContinuous)
        w2 == flushByteAlign(writeBitShort(writeBitDouble(w1, 0), 0))
        w3 == flushByteAlign(appendText(w2, descSolid))
        w4 == writeHandleRef(writeHandleRef(writeHandleRef(w3, ltypeCtrlHandle), 0), 0)
    IN  closeRecord(w4)

\* consecutive writeBitDouble calls
RECURSIVE writeBitDoubles(_, _)
writeBitDoubles(w, vals) ==
    IF vals = <<>> THEN w
    ELSE LET w1 == writeBitDouble(w, Head(vals))
         IN  IF w1.bitPos \in 0..7 THEN writeBitDoubles(w1, Tail(vals)) ELSE w1

\* a LINE (0x13) or CIRCLE (0x12) entity; c holds the random values drawn for it:
\* <<x1, y1, x2, y2>> for a line, <<cx, cy, radius>> for a circle
entityRecord(isLine, c) ==
    LET w1 == flushByteAlign(writeBitShort(NewRecord, IF isLine THEN 19 ELSE 18))
        w2 == writeHandleRef(w1, layer0Handle)
        w3 == IF isLine
              THEN writeBitDoubles(w2, <<c[1], c[2], 0, c[3], c[4], 0, 0, 0, 0, 1>>)
              ELSE writeBitDoubles(w2, <<c[1], c[2], 0, c[3], 0, 0, 0, 1>>)
        w4 == flushByteAlign(w3)
        w5 == writeHandleRef(writeHandleRef(writeHandleRef(w4, modelSpaceBlockHdl), 0), 0)
    IN  closeRecord(w5)

\* append one record to the objects section and its entry to the handle index
appendObjectOffsetAfter(st, handle, rec) ==
    [st EXCEPT !.objectsSec = @ \o rec,
               !.handleIndex = Append(@, [handle |-> handle,
                                          offset |-> Len(st.objectsSec) + Len(rec)])]

appendObject(st, handle, rec) ==
    [st EXCEPT !.objectsSec = @ \o rec,
               !.handleIndex = Append(@, [handle |-> handle, offset |-> Len(st.objectsSec)])]

\* the state of Generate when the fill loop is entered: the six table objects
tablesWritten ==
    LET s0 == [objectsSec |-> startSentinel, handleIndex |-> <<>>,
               entityCount |-> 0, nextEntityHandle |-> firstEntityHandle]
        s1 == appendObject(s0, blockCtrlHandle, controlRecord(48))
        s2 == appendObject(s1, modelSpaceBlockHdl, blockRecord(0))
        s3 == appendObject(s2, layerCtrlHandle, controlRecord(50))
        s4 == appendObject(s3, layer0Handle, layerRecord)
        s5 == appendObject(s4, ltypeCtrlHandle, controlRecord(56))
    IN  appendObject(s5, contLtypeHandle, ltypeRecord)

\* the fixed parts in front of the objects section
fixedLen == baseOffset + summarySize + previewSize + headerVarsSize + classesSize

\* "current file length if we closed now" of the fill loop
currentLen(st) == fixedLen + Len(st.objectsSec) + 16 + 16 + 16

\* the expected length without the candidate record
futureTotalWithoutRecord(st, rec) == fixedLen + 16 + 32

\* length the fill loop expects after appending rec
futureTotal(st, rec) == fixedLen + Len(st.objectsSec) + Len(rec) + 16 + 32

\* one entry of the handles section: length byte, handle bytes, 4-byte offset
handleEntry(e) ==
    LET hBytes == IF e.handle = 0 THEN <<0>> ELSE HandleBytes(e.handle)
    IN  <<Len(hBytes)>> \o hBytes
        \o <<e.offset % 256, (e.offset \div 256) % 256,
             (e.offset \div 65536) % 256, (e.offset \div 16777216) % 256>>

\* sort.Slice(handleIndex, by handle): insertion sort
RECURSIVE insertByHandle(_, _)
insertByHandle(sorted, e) ==
    IF sorted = <<>> THEN <<e>>
    ELSE IF e.handle < Head(sorted).handle THEN <<e>> \o sorted
    ELSE <<Head(sorted)>> \o insertByHandle(Tail(sorted), e)

RECURSIVE sortByHandle(_)
sortByHandle(idx) ==
    IF idx = <<>> THEN <<>>
    ELSE insertByHandle(sortByHandle(SubSeq(idx, 1, Len(idx) - 1)), idx[Len(idx)])

RECURSIVE handleEntries(_)
handleEntries(idx) ==
    IF idx = <<>> THEN <<>> ELSE handleEntry(Head(idx)) \o handleEntries(Tail(idx))

buildHandlesSec(idx) == startSentinel \o handleEntries(sortByHandle(idx)) \o endSentinel

\* copy(objectsSec[objPos:objPos+len(rec)], rec)
copyInto(sec, objPos, rec) ==
    [i \in 1..Len(sec) |->
        IF i > objPos /\ i <= objPos + Len(rec) THEN rec[i - objPos] ELSE sec[i]]

\* the offset recorded for the first handle index entry with the given handle
RECURSIVE offsetOf(_, _)
offsetOf(idx, handle) ==
    IF Head(idx).handle = handle THEN Head(idx).offset ELSE offsetOf(Tail(idx), handle)

\* number of zero bytes the free-space section gets
padBytes(size, objectsSize, handlesSize) ==
    LET currentLength == fixedLen + objectsSize + handlesSize
                         + Len(startSentinel) + Len(endSentinel)
    IN  IF currentLength < size THEN size - currentLength ELSE 0

\* length of the file Generate writes when no entity is appended
DwgMinimum ==
    fixedLen + Len(tablesWritten.objectsSec) + Len(endSentinel)
    + Len(buildHandlesSec(tablesWritten.handleIndex))
    + Len(startSentinel) + Len(endSentinel)

(***************************************************************************)
(* DWGGenerator.Generate                                                   *)
(***************************************************************************)

\* targets reach from below the minimum file to DwgMaxExtra bytes above it
DwgMaxExtra == 10

DwgTargets == {0, DwgMinimum - 60} \cup ((DwgMinimum - 2)..(DwgMinimum + DwgMaxExtra))

\* values rand.Intn(2000) - 1000 can give for x1, y1, x2, y2
DwgLineCoords == {<<0, 0, 0, 0>>, <<2, 0, 1, 0>>, <<-1000, 999, 1, 0>>,
                  <<500, 2, 0, -3>>, <<999, -1000, 2, 500>>}

\* values for cx, cy and for radius = rand.Intn(500) + 1
DwgCircleCoords == {<<0, 0, 1>>, <<0, 1, 2>>, <<-1000, 0, 500>>, <<999, 3, 250>>}

\* the entity records one iteration of the fill loop can build
DwgCandidates ==
    {entityRecord(TRUE, c) : c \in DwgLineCoords}
    \cup {entityRecord(FALSE, c) : c \in DwgCircleCoords}

NoLoc == [kind |-> "none"]

StartCall(g, targets) ==
    /\ gen = g
    /\ pc = "start"
    /\ targetSize \in targets
    /\ err = ""
    /\ fs = EmptyFs
    /\ loc = NoLoc
    /\ out = NoOut
    /\ run = 1
    /\ firstLen = 0

DwgInit == StartCall("dwg", DwgTargets)

\* os.Create(outPath), the fixed sections and the six table objects
DwgBuildTables ==
    /\ gen = "dwg" /\ pc = "start"
    /\ fs' = [fs EXCEPT !["path"] = File(0)]
    /\ loc' = tablesWritten
    /\ pc' = "fill"
    /\ UNCHANGED <<gen, targetSize, err, out, run, firstLen>>

\* fill loop: the file closed now would already reach the target
DwgFillStop ==
    /\ gen = "dwg" /\ pc = "fill"
    /\ currentLen(loc) >= targetSize
    /\ pc' = "close"
    /\ UNCHANGED <<gen, targetSize, err, fs, loc, out, run, firstLen>>

\* fill loop: the candidate entity would overshoot and is discarded
DwgFillDiscard ==
    /\ gen = "dwg" /\ pc = "fill"
    /\ currentLen(loc) < targetSize
    /\ \E rec \in DwgCandidates : futureTotal(loc, rec) > targetSize
    /\ pc' = "close"
    /\ UNCHANGED <<gen, targetSize, err, fs, loc, out, run, firstLen>>

\* fill loop: the candidate entity is appended
DwgFillAppend ==
    /\ gen = "dwg" /\ pc = "fill"
    /\ currentLen(loc) < targetSize
    /\ \E rec \in DwgCandidates :
         /\ futureTotal(loc, rec) <= targetSize
         /\ loc' = [appendObject(loc, loc.nextEntityHandle, rec)
                       EXCEPT !.nextEntityHandle = @ + 1,
                              !.entityCount = @ + 1]
    /\ UNCHANGED <<gen, pc, targetSize, err, fs, out, run, firstLen>>

\* count patch, end of the objects section, handles and free-space sections,
\* and the writes of header, directory and the seven sections
DwgClose ==
    /\ gen = "dwg" /\ pc = "close"
    /\ LET patched    == copyInto(loc.objectsSec,
                                  offsetOf(loc.handleIndex, modelSpaceBlockHdl),
                                  blockRecord(loc.entityCount))
           objectsSec == patched \o endSentinel
           handlesSec == buildHandlesSec(loc.handleIndex)
           pad        == padBytes(targetSize, Len(objectsSec), Len(handlesSec))
           freeSize   == Len(startSentinel) + pad + Len(endSentinel)
       IN  /\ out' = [kind |-> "dwg", objectsSec |-> objectsSec,
                      handlesSec |-> handlesSec, padBytes |-> pad,
                      freeSize |-> freeSize, entityCount |-> loc.entityCount]
           /\ fs' = [fs EXCEPT !["path"] =
                        File(baseOffset + previewSize + summarySize + headerVarsSize
                             + classesSize + Len(objectsSec) + Len(handlesSec) + freeSize)]
    /\ pc' = "done"
    /\ UNCHANGED <<gen, targetSize, err, loc, run, firstLen>>

DwgNext == DwgBuildTables \/ DwgFillStop \/ DwgFillDiscard \/ DwgFillAppend \/ DwgClose

SpecDwg == DwgInit /\ [][DwgNext]_vars

\* C1: for every target at or above the minimum structural size the DWG file
\* is exactly target bytes long
DwgExactLength ==
    (gen = "dwg" /\ pc = "done" /\ err = "" /\ targetSize >= DwgMinimum)
        => fs["path"].len = targetSize

\* C2: a target below the sum of the mandatory parts is rejected with a
\* size-too-small error, never answered with a longer file
DwgTooSmallRejected ==
    (gen = "dwg" /\ pc = "done" /\ targetSize < DwgMinimum)
        => (err = "too small" /\ ~(fs["path"].exists /\ fs["path"].len > targetSize))

(***************************************************************************)
(* Sizes beyond 31 bits: value = hi * 65536 + lo with lo in 0..65535       *)
(***************************************************************************)

\* bufSize := 64 * 1024
bufSize == 65536

Wide(hi, lo) == [hi |-> hi + (lo \div bufSize), lo |-> lo % bufSize]

WideAdd(x, k) == Wide(x.hi, x.lo + k)

WideLT(x, y) == x.hi < y.hi \/ (x.hi = y.hi /\ x.lo < y.lo)

WideLess(x, k) == WideLT(x, Wide(0, k))

\* uint32(x): the low 32 bits
Uint32(x) == [hi |-> x.hi % Pow2(16), lo |-> x.lo]

\* utils.WriteRandomBytes(w, n) run to completion: hi full chunks of bufSize
\* bytes and one last chunk of lo bytes; nothing for n <= 0
WriteRandomBytes(n) == IF WideLess(n, 1) THEN Wide(0, 0) ELSE [hi |-> n.hi, lo |-> n.lo]

(***************************************************************************)
(* ZipGenerator.Generate                                                   *)
(***************************************************************************)

entryName == "dummy.bin"

entryNameLen == 9

\* archive/zip: fixed part of a local file header
zipFileHeaderLen == 30

\* archive/zip: data descriptor written after a CreateHeader entry, and its
\* zip64 form
zipDataDescriptorLen == 16

zipDataDescriptor64Len == 24

\* archive/zip: fixed part of a central directory header, and the zip64 extra
\* block appended to it
zipDirectoryHeaderLen == 46

zipDirectory64ExtraLen == 28

\* archive/zip: end of central directory record, and the zip64 end record
\* with its locator
zipDirectoryEndLen == 22

zipDirectory64EndLen == 56 + 20

\* archive/zip: extended-timestamp extra field of a header with Modified set
zipExtTimeExtraLen == 9

\* archive/zip: uint32max = 1<<32 - 1
uint32max == [hi |-> Pow2(16) - 1, lo |-> bufSize - 1]

\* &zip.FileHeader{Name: name, Method: zip.Store, Modified: time.Now()}
storeHeader(name, nameLen) ==
    [name |-> name, nameLen |-> nameLen, method |-> "store", modified |-> TRUE]

\* the bytes zw.CreateHeader, the payload and zw.Close put in the archive:
\* local header, payload, data descriptor, directory header, end records
zipArchiveLen(hdr, payload) ==
    LET extra == IF hdr.modified THEN zipExtTimeExtraLen ELSE 0
        isZip64 == ~WideLT(payload, uint32max)
        localLen == zipFileHeaderLen + hdr.nameLen + extra
        descriptor == IF isZip64 THEN zipDataDescriptor64Len ELSE zipDataDescriptorLen
        dirStart == WideAdd(payload, localLen + descriptor)
        dirLen == zipDirectoryHeaderLen + hdr.nameLen + extra
                  + (IF isZip64 THEN zipDirectory64ExtraLen ELSE 0)
        endLen == (IF ~WideLT(dirStart, uint32max) THEN zipDirectory64EndLen ELSE 0)
                  + zipDirectoryEndLen
    IN  WideAdd(dirStart, dirLen + endLen)

\* zipEntryOverhead(name): an archive with one STORE entry and no payload
zipEntryOverhead(name, nameLen) == zipArchiveLen(storeHeader(name, nameLen), Wide(0, 0)).lo

ZipMaxBelow == 3

ZipMaxExtra == 20

ZipOverhead == zipEntryOverhead(entryName, entryNameLen)

ZipTargets ==
    {Wide(0, -5), Wide(0, 0), Wide(0, ZipOverhead + 1000)}
    \cup {Wide(h, l) : h \in {0, 1, Pow2(16) - 1, Pow2(16)},
                       l \in (ZipOverhead - ZipMaxBelow)..(ZipOverhead + ZipMaxExtra)}

ZipInit == StartCall("zip", ZipTargets)

\* overhead and the two checks on it
ZipCheckSize ==
    /\ gen = "zip" /\ pc = "start"
    /\ LET overhead == zipEntryOverhead(entryName, entryNameLen)
       IN  IF overhead <= 0
           THEN /\ err' = "internal" /\ pc' = "done" /\ loc' = loc
           ELSE IF WideLess(targetSize, overhead)
           THEN /\ err' = "too small" /\ pc' = "done" /\ loc' = loc
           ELSE /\ err' = err /\ pc' = "create"
                /\ loc' = [overhead |-> overhead,
                           dataBytes |-> WideAdd(targetSize, -overhead)]
    /\ UNCHANGED <<gen, targetSize, fs, out, run, firstLen>>

\* os.Create, zip.NewWriter and zw.CreateHeader
ZipCreateEntry ==
    /\ gen = "zip" /\ pc = "create"
    /\ fs' = [fs EXCEPT !["path"] = [exists |-> TRUE, len |-> Wide(0, 0)]]
    /\ loc' = [overhead |-> loc.overhead, dataBytes |-> loc.dataBytes,
               hdr |-> storeHeader(entryName, entryNameLen), written |-> Wide(0, 0)]
    /\ pc' = "write"
    /\ UNCHANGED <<gen, targetSize, err, out, run, firstLen>>

\* if dataBytes > 0: utils.WriteRandomBytes(w, dataBytes)
ZipWriteData ==
    /\ gen = "zip" /\ pc = "write"
    /\ loc' = [loc EXCEPT !.written = IF WideLess(loc.dataBytes, 1) THEN Wide(0, 0)
                                      ELSE WriteRandomBytes(loc.dataBytes)]
    /\ pc' = "close"
    /\ UNCHANGED <<gen, targetSize, err, fs, out, run, firstLen>>

\* zw.Close(): the central directory and the end records reach the file
ZipClose ==
    /\ gen = "zip" /\ pc = "close"
    /\ out' = [kind |-> "zip",
               entries |-> <<[name |-> loc.hdr.name, method |-> loc.hdr.method,
                              payload |-> loc.written]>>]
    /\ fs' = [fs EXCEPT !["path"] =
                 [exists |-> TRUE, len |-> zipArchiveLen(loc.hdr, loc.written)]]
    /\ pc' = "done"
    /\ UNCHANGED <<gen, targetSize, err, loc, run, firstLen>>

ZipNext == ZipCheckSize \/ ZipCreateEntry \/ ZipWriteData \/ ZipClose

SpecZip == ZipInit /\ [][ZipNext]_vars

\* C5: size >= overhead gives exactly size bytes holding the one entry
\* dummy.bin with size - overhead payload bytes; size < overhead gives a
\* too-small error, and the file is only ever created after that check passed
ZipExactOneEntry ==
    /\ (gen = "zip" /\ fs["path"].exists)
          => (~WideLess(targetSize, ZipOverhead) /\ err = "")
    /\ (gen = "zip" /\ pc = "done")
        => IF ~WideLess(targetSize, ZipOverhead)
           THEN /\ err = ""
                /\ fs["path"] = [exists |-> TRUE, len |-> targetSize]
                /\ Len(out.entries) = 1
                /\ out.entries[1].name = entryName
                /\ out.entries[1].method = "store"
                /\ out.entries[1].payload = WideAdd(targetSize, -ZipOverhead)
           ELSE err = "too small" /\ ~fs["path"].exists

(***************************************************************************)
(* WAVGenerator.Generate                                                   *)
(***************************************************************************)

wavHeaderSize == 44

\* byte widths of the header fields in the order they are written:
\* "RIFF", riffSize, "WAVE", "fmt ", 16, format, channels, sampleRate,
\* byteRate, blockAlign, bitsPerSample, "data", dataSize
wavHeaderFields == <<4, 4, 4, 4, 4, 2, 2, 4, 4, 2, 2, 4, 4>>

RECURSIVE SumSeq(_)
SumSeq(q) == IF q = <<>> THEN 0 ELSE Head(q) + SumSeq(Tail(q))

\* riffSize := uint32(size - 8)
wavRiffSizeHeaderOnly(size) == Uint32(WideAdd(size, -wavHeaderSize))

wavRiffSize(size) == Uint32(WideAdd(size, -8))

WavMaxLow == 50

\* 2^32 counted in units of 65536 bytes
WavGiB4 == Pow2(16)

WavTargets ==
    {Wide(h, l) : h \in {0, 1, WavGiB4 - 1, WavGiB4, WavGiB4 + 1},
                  l \in (0..WavMaxLow) \cup {65535}}
    \cup {Wide(-1, 65535), Wide(0, -44)}

WavInit == StartCall("wav", WavTargets)

\* if size < wavHeaderSize: error before anything is created
WavCheckSize ==
    /\ gen = "wav" /\ pc = "start"
    /\ IF WideLess(targetSize, wavHeaderSize)
       THEN err' = "too small" /\ pc' = "done"
       ELSE err' = err /\ pc' = "create"
    /\ UNCHANGED <<gen, targetSize, fs, loc, out, run, firstLen>>

\* os.Create and the 44-byte header
WavWriteHeader ==
    /\ gen = "wav" /\ pc = "create"
    /\ LET dataBytes == WideAdd(targetSize, -wavHeaderSize)
       IN  /\ loc' = [dataBytes |-> dataBytes,
                      riffSize |-> wavRiffSize(targetSize),
                      dataSize |-> Uint32(dataBytes),
                      headerLen |-> SumSeq(wavHeaderFields)]
           /\ fs' = [fs EXCEPT !["path"] = [exists |-> TRUE, len |-> Wide(0, 0)]]
    /\ pc' = "write"
    /\ UNCHANGED <<gen, targetSize, err, out, run, firstLen>>

\* utils.WriteRandomBytes(w, dataBytes), w.Flush() and the deferred Close
WavWriteData ==
    /\ gen = "wav" /\ pc = "write"
    /\ LET samples == WriteRandomBytes(loc.dataBytes)
       IN  /\ out' = [kind |-> "wav", riffSize |-> loc.riffSize,
                      dataSize |-> loc.dataSize, headerLen |-> loc.headerLen,
                      samples |-> samples]
           /\ fs' = [fs EXCEPT !["path"] =
                        [exists |-> TRUE, len |-> WideAdd(samples, loc.headerLen)]]
    /\ pc' = "done"
    /\ UNCHANGED <<gen, targetSize, err, loc, run, firstLen>>

WavNext == WavCheckSize \/ WavWriteHeader \/ WavWriteData

SpecWav == WavInit /\ [][WavNext]_vars

\* what every call settles, whatever the header fields hold
WavLengthAndRejection ==
    /\ (gen = "wav" /\ fs["path"].exists) => ~WideLess(targetSize, wavHeaderSize)
    /\ (gen = "wav" /\ pc = "done")
        => IF WideLess(targetSize, wavHeaderSize)
           THEN err = "too small" /\ ~fs["path"].exists
           ELSE /\ err = ""
                /\ fs["path"] = [exists |-> TRUE, len |-> targetSize]
                /\ out.headerLen = wavHeaderSize
                /\ out.samples = WideAdd(targetSize, -44)

RECURSIVE IsqrtIn(_, _, _)
IsqrtIn(x, lo, hi) ==
    IF lo >= hi THEN lo
    ELSE LET mid == (lo + hi + 1) \div 2
         IN  IF mid * mid <= x THEN IsqrtIn(x, mid, hi) ELSE IsqrtIn(x, lo, mid - 1)

\* int(math.Sqrt(x)) for x >= 0
Isqrt(x) == IsqrtIn(x, 0, Min(x, 46340))

\* int(float64(side) * math.Sqrt(float64(targetSize) / float64(len(data)))),
\* in exact arithmetic
shrinkSide(side, target, dataLen) == Isqrt((side * side * target) \div dataLen)

(***************************************************************************)
(* PngGenerator.Generate                                                   *)
(***************************************************************************)

\* signature, IHDR, IEND, one IDAT chunk frame and the zlib frame
pngFixedLen == 63

\* keyword := "Pad"
keywordLen == 3

\* side := int(math.Sqrt(float64(targetSize) / 4.0)), at least 1
pngSide(target) == Max(1, Isqrt(target \div 4))

PngMaxVar == 8

\* png.Encode of side x side noise: the filtered rows take side * (4 * side + 1)
\* bytes, and what deflate adds depends on the noise
pngEncodedLens(side) ==
    { pngFixedLen + side * (4 * side + 1) + d : d \in 0..PngMaxVar }

\* padPNGToSize: the length of the data of the tEXt chunk
pngChunkDataLen(needed) == Max(needed - 12, keywordLen + 1)

\* padPNGToSize: body, length, type, data, crc, IEND
padPNGToSize(n, target) ==
    IF n < 12 THEN [err |-> "png data too short"]
    ELSE LET dataLen == pngChunkDataLen(target - n)
         IN  [err |-> "", textChunks |-> 1, textDataLen |-> dataLen,
              padLen |-> dataLen - keywordLen - 1,
              total |-> (n - 12) + 4 + 4 + dataLen + 4 + 12]

PngMaxExtra == 10

PngTargets == {0, 1000} \cup (105..(105 + PngMaxExtra))

PngInit == StartCall("png", PngTargets)

\* steps 1 to 3: side, noise image, png.Encode
PngEncode ==
    /\ gen = "png" /\ pc = "start"
    /\ \E n \in pngEncodedLens(pngSide(targetSize)) :
           loc' = [side |-> pngSide(targetSize), dataLen |-> n]
    /\ pc' = "encoded"
    /\ UNCHANGED <<gen, targetSize, err, fs, out, run, firstLen>>

\* the write of padPNGToSize's result
PngWrite(n) ==
    LET r == padPNGToSize(n, targetSize)
    IN  IF r.err # ""
        THEN err' = r.err /\ fs' = fs /\ out' = out
        ELSE /\ err' = err
             /\ fs' = [fs EXCEPT !["path"] = File(r.total)]
             /\ out' = [kind |-> "png", baseLen |-> n, textChunks |-> r.textChunks,
                        textDataLen |-> r.textDataLen]

\* len(data) > targetSize: shrink once and generatePNGWithSize
PngShrink ==
    /\ gen = "png" /\ pc = "encoded" /\ loc.dataLen > targetSize
    /\ LET newSide == shrinkSide(loc.side, targetSize, loc.dataLen)
       IN  IF newSide < 1
           THEN err' = "too small" /\ loc' = loc /\ fs' = fs /\ out' = out
           ELSE \E n \in pngEncodedLens(newSide) :
                   /\ loc' = [side |-> newSide, dataLen |-> n]
                   /\ IF n > targetSize
                      THEN err' = "too small" /\ fs' = fs /\ out' = out
                      ELSE PngWrite(n)
    /\ pc' = "done"
    /\ UNCHANGED <<gen, targetSize, run, firstLen>>

\* step 4: padPNGToSize on the first encoding
PngPad ==
    /\ gen = "png" /\ pc = "encoded" /\ loc.dataLen <= targetSize
    /\ PngWrite(loc.dataLen)
    /\ pc' = "done"
    /\ UNCHANGED <<gen, targetSize, loc, run, firstLen>>

PngNext == PngEncode \/ PngShrink \/ PngPad

SpecPng == PngInit /\ [][PngNext]_vars

\* C6: a successful PNG run leaves exactly target bytes with one tEXt chunk
\* whose data length plus 12 is the gap between base encoding and target
PngExactOneChunk ==
    (gen = "png" /\ pc = "done" /\ err = "")
        => /\ fs["path"] = File(targetSize)
           /\ out.textChunks = 1
           /\ out.textDataLen + 12 = targetSize - out.baseLen

(***************************************************************************)
(* JPEGGenerator.Generate                                                  *)
(***************************************************************************)

\* SOI, DQT, SOF0, DHT, SOS header and EOI of a baseline colour encoding
jpegFixedLen == 591

\* if chunk > 0xFFFD
maxComPayload == 65533

\* side := int(math.Sqrt(float64(targetSize) / 1.1)), at least 1
jpegSide(target) == Max(1, Isqrt((target * 10) \div 11))

JpegMaxVar == 6

\* jpeg.Encode of side x side noise at quality 90: the length of the scan
\* depends on the noise
jpegEncodedLens(side) == { jpegFixedLen + side * side + d : d \in 0..JpegMaxVar }

\* maxDataPayload := rem - 4, capped at 0xFFFD
comChunk(rem) == Min(rem - 4, maxComPayload)

JpegMaxExtra == 6

\* the large targets put needed near one full segment plus a few bytes
JpegTargets ==
    {0, 300} \cup (596..(596 + JpegMaxExtra)) \cup (727101..(727101 + JpegMaxExtra))

JpegInit == StartCall("jpeg", JpegTargets)

\* Generate: the estimate of side
JpegStart ==
    /\ gen = "jpeg" /\ pc = "start"
    /\ loc' = [side |-> jpegSide(targetSize)]
    /\ pc' = "encode"
    /\ UNCHANGED <<gen, targetSize, err, fs, out, run, firstLen>>

\* generateJPEGWithSide: encode, then shrink and recurse, or go on to pad
JpegEncode ==
    /\ gen = "jpeg" /\ pc = "encode"
    /\ \E n \in jpegEncodedLens(loc.side) :
        IF n > targetSize
        THEN LET newSide == shrinkSide(loc.side, targetSize, n)
             IN  IF newSide < 1
                 THEN err' = "too small" /\ pc' = "done" /\ loc' = loc
                 ELSE err' = err /\ pc' = "encode" /\ loc' = [side |-> newSide]
        ELSE /\ err' = err /\ pc' = "pad"
             /\ loc' = [side |-> loc.side, dataLen |-> n, rem |-> targetSize - n,
                        segments |-> <<>>]
    /\ UNCHANGED <<gen, targetSize, fs, out, run, firstLen>>

\* padJPEGToSize: one COM segment of 4 + chunk bytes
JpegPadSegment ==
    /\ gen = "jpeg" /\ pc = "pad"
    /\ loc.rem > 0 /\ loc.rem - 4 > 0
    /\ LET chunk == comChunk(loc.rem)
       IN  loc' = [loc EXCEPT !.segments = Append(@, [lengthField |-> chunk + 2,
                                                      payload |-> chunk]),
                              !.rem = @ - (4 + chunk)]
    /\ UNCHANGED <<gen, pc, targetSize, err, fs, out, run, firstLen>>

\* padJPEGToSize: pre, segments, post written to path
JpegWrite ==
    /\ gen = "jpeg" /\ pc = "pad"
    /\ ~(loc.rem > 0 /\ loc.rem - 4 > 0)
    /\ LET segBytes == SumSeq([i \in 1..Len(loc.segments) |-> 4 + loc.segments[i].payload])
       IN  /\ fs' = [fs EXCEPT !["path"] = File(loc.dataLen + segBytes)]
           /\ out' = [kind |-> "jpeg", baseLen |-> loc.dataLen,
                      segments |-> loc.segments, segBytes |-> segBytes]
    /\ pc' = "done"
    /\ UNCHANGED <<gen, targetSize, err, loc, run, firstLen>>

JpegNext == JpegStart \/ JpegEncode \/ JpegPadSegment \/ JpegWrite

SpecJpeg == JpegInit /\ [][JpegNext]_vars

\* C7: a successful JPEG run leaves L bytes with target - 3 <= L <= target,
\* the COM segments (payload at most 65533, length field payload + 2)
\* adding between needed - 3 and needed bytes
JpegWithinThree ==
    (gen = "jpeg" /\ pc = "done" /\ err = "")
        => /\ targetSize - 3 <= fs["path"].len /\ fs["path"].len <= targetSize
           /\ targetSize - out.baseLen - 3 <= out.segBytes
           /\ out.segBytes <= targetSize - out.baseLen
           /\ \A i \in 1..Len(out.segments) :
                 /\ out.segments[i].payload <= maxComPayload
                 /\ out.segments[i].lengthField = out.segments[i].payload + 2

(***************************************************************************)
(* JsonGenerator.Generate                                                  *)
(***************************************************************************)

keyLengthMin == 5

keyLengthMax == 15

valLengthMin == 5

valLengthMax == 100

\* bufSize := 8192, the size at which fileBuffer is written out
jsonBufSize == 8192

\* generateJsonStringSafeString(n): n characters, each backslash drawn taking
\* two bytes
escapedLen(n, backslashes) == n + backslashes

\* "key":"val" with an optional leading comma
pairLength(comma, keyLen, valBytes) == comma + 1 + keyLen + 2 + 1 + valBytes + 1

\* the bytes the final pair adds: nothing when the key cannot fit
finalPairLen(bytesWritten, target) ==
    LET remainingSpace == target - bytesWritten
        commaOverhead == IF bytesWritten > 1 THEN 1 ELSE 0
        spaceForFinalPair == remainingSpace - 1
        maxFinalKeyLen == spaceForFinalPair - (commaOverhead + 5)
    IN  IF remainingSpace > 1 /\ maxFinalKeyLen >= keyLengthMin
        THEN \* any key length in keyLengthMin..Min(maxFinalKeyLen, keyLengthMax):
             \* the value of spaces takes what is left of spaceForFinalPair
             spaceForFinalPair
        ELSE 0

JsonMaxTarget == 160

JsonMaxEscapes == 1

JsonTargets == (-1)..JsonMaxTarget

JsonValLens == {valLengthMin, 50, 96, valLengthMax}

JsonInit == StartCall("json", JsonTargets)

\* targetSize < 2: os.WriteFile of "" or "{"
JsonSmall ==
    /\ gen = "json" /\ pc = "start" /\ targetSize < 2
    /\ LET content == IF targetSize = 1 THEN <<"{">> ELSE <<>>
       IN  /\ fs' = [fs EXCEPT !["path"] = File(Len(content))]
           /\ out' = [kind |-> "json", first |-> IF content = <<>> THEN "" ELSE "{",
                      last |-> IF content = <<>> THEN "" ELSE "{",
                      bytesWritten |-> Len(content)]
    /\ pc' = "done"
    /\ UNCHANGED <<gen, targetSize, err, loc, run, firstLen>>

\* os.Create and the opening brace in fileBuffer
JsonOpen ==
    /\ gen = "json" /\ pc = "start" /\ targetSize >= 2
    /\ fs' = [fs EXCEPT !["path"] = File(0)]
    /\ loc' = [bytesWritten |-> 1, firstKey |-> TRUE, buffered |-> 1, last |-> "{"]
    /\ pc' = "loop"
    /\ UNCHANGED <<gen, targetSize, err, out, run, firstLen>>

\* the three conditions that leave the main loop before a pair is generated
jsonLoopEnds(bytesWritten, firstKey, target) ==
    LET commaOverhead == IF firstKey THEN 0 ELSE 1
        minPairOverhead == commaOverhead + 5 + keyLengthMin
        maxPairLen == commaOverhead + 5 + keyLengthMax + valLengthMax
    IN  \/ ~(bytesWritten < target - 1)
        \/ bytesWritten + minPairOverhead >= target - 1
        \/ bytesWritten + maxPairLen > target - 1

\* one iteration that generates a pair: appended, or dropped with a break
JsonLoopPair ==
    /\ gen = "json" /\ pc = "loop"
    /\ ~jsonLoopEnds(loc.bytesWritten, loc.firstKey, targetSize)
    /\ \E keyLen \in keyLengthMin..keyLengthMax, valLen \in JsonValLens,
          esc \in 0..JsonMaxEscapes :
        LET comma == IF loc.firstKey THEN 0 ELSE 1
            pairLen == pairLength(comma, keyLen, escapedLen(valLen, esc))
        IN  IF loc.bytesWritten + pairLen > targetSize - 1
            THEN /\ loc' = [loc EXCEPT !.firstKey = TRUE]
                 /\ pc' = "final" /\ fs' = fs
            ELSE LET buffered == loc.buffered + pairLen
                 IN  /\ loc' = [bytesWritten |-> loc.bytesWritten + pairLen,
                                firstKey |-> FALSE,
                                buffered |-> IF buffered >= jsonBufSize THEN 0 ELSE buffered,
                                last |-> "\""]
                     /\ fs' = [fs EXCEPT !["path"] =
                                  File(@.len + IF buffered >= jsonBufSize THEN buffered ELSE 0)]
                     /\ pc' = "loop"
    /\ UNCHANGED <<gen, targetSize, err, out, run, firstLen>>

\* the loop ends on its guard or on one of the two size breaks
JsonLoopBreak ==
    /\ gen = "json" /\ pc = "loop"
    /\ jsonLoopEnds(loc.bytesWritten, loc.firstKey, targetSize)
    /\ pc' = "final"
    /\ UNCHANGED <<gen, targetSize, err, fs, loc, out, run, firstLen>>

\* final padding, closing brace, last write of fileBuffer, f.Sync
JsonFinal ==
    /\ gen = "json" /\ pc = "final"
    /\ LET padded == loc.bytesWritten + finalPairLen(loc.bytesWritten, targetSize)
           brace == IF padded < targetSize THEN 1 ELSE 0
           total == padded + brace
       IN  /\ fs' = [fs EXCEPT !["path"] =
                        File(@.len + loc.buffered + (total - loc.bytesWritten))]
           /\ out' = [kind |-> "json", first |-> "{",
                      last |-> IF brace = 1 THEN "}"
                               ELSE IF padded > loc.bytesWritten THEN "\"" ELSE loc.last,
                      bytesWritten |-> total]
    /\ pc' = "done"
    /\ UNCHANGED <<gen, targetSize, err, loc, run, firstLen>>

JsonNext == JsonSmall \/ JsonOpen \/ JsonLoopPair \/ JsonLoopBreak \/ JsonFinal

SpecJson == JsonInit /\ [][JsonNext]_vars

\* C9: targetSize >= 2 gives exactly targetSize bytes from '{' to '}';
\* targetSize = 1 gives "{"; targetSize <= 0 gives an empty file; never an error
JsonExactBraces ==
    (gen = "json" /\ pc = "done")
        => /\ err = ""
           /\ fs["path"].exists
           /\ IF targetSize >= 2
              THEN fs["path"].len = targetSize /\ out.first = "{" /\ out.last = "}"
              ELSE IF targetSize = 1
              THEN fs["path"].len = 1 /\ out.first = "{"
              ELSE fs["path"].len = 0

(***************************************************************************)
(* DxfGenerator.Generate                                                   *)
(***************************************************************************)

\* len("999\n" + 255 * "X" + "\n")
bytesPerComment == 4 + 255 + 1

\* the length of the last comment line: remainder raised to 5, "999\n" + text + "\n"
dxfLastLineLenUnraised(remainder) == remainder

dxfLastLineLen(remainder) ==
    LET raised == IF remainder < 5 THEN 5 ELSE remainder
        textLen == Max(raised - 5, 0)
    IN  4 + textLen + 1

\* the size of the one-line drawing that dwg.SaveAs writes
DxfBaseLow == 1200

DxfBaseSpan == 1

DxfMaxPad == 530

DxfTargets == {0} \cup ((DxfBaseLow - 2)..(DxfBaseLow + DxfMaxPad))

DxfExts == {".dxf", ".dwg"}

\* the key of tempPath in fs: path itself unless the extension is .dwg
dxfTemp(ext) == IF ext = ".dwg" THEN "tempPath" ELSE "path"

DxfInit ==
    /\ gen = "dxf" /\ pc = "start"
    /\ targetSize \in DxfTargets
    /\ err = "" /\ fs = EmptyFs /\ out = NoOut /\ run = 1 /\ firstLen = 0
    /\ \E ext \in DxfExts : loc = [ext |-> ext]

\* dxf.NewDrawing, dwg.Line, dwg.SaveAs(tempPath), os.Stat
DxfSaveAs ==
    /\ gen = "dxf" /\ pc = "start"
    /\ \E baseSize \in DxfBaseLow..(DxfBaseLow + DxfBaseSpan) :
        /\ fs' = [fs EXCEPT ![dxfTemp(loc.ext)] = File(baseSize)]
        /\ loc' = [ext |-> loc.ext, baseSize |-> baseSize]
    /\ pc' = "saved"
    /\ UNCHANGED <<gen, targetSize, err, out, run, firstLen>>

\* os.Rename(tempPath, path) when the two differ
dxfRename(files, ext) ==
    IF dxfTemp(ext) = "path" THEN files
    ELSE [files EXCEPT !["path"] = files["tempPath"], !["tempPath"] = NoFile]

\* the comparison of baseSize with size
DxfCheckSize ==
    /\ gen = "dxf" /\ pc = "saved"
    /\ IF loc.baseSize > targetSize
       THEN /\ err' = "minimum DXF is" /\ pc' = "done"
            /\ UNCHANGED <<fs, loc, out>>
       ELSE IF loc.baseSize = targetSize
       THEN /\ fs' = dxfRename(fs, loc.ext) /\ pc' = "done"
            /\ out' = [kind |-> "dxf", baseSize |-> loc.baseSize, fullLines |-> 0,
                       lastLine |-> 0]
            /\ UNCHANGED <<err, loc>>
       ELSE /\ LET padNeeded == targetSize - loc.baseSize
               IN  loc' = [ext |-> loc.ext, baseSize |-> loc.baseSize,
                           fullLines |-> padNeeded \div bytesPerComment,
                           remainder |-> padNeeded % bytesPerComment, i |-> 0]
            /\ pc' = "pad"
            /\ UNCHANGED <<err, fs, out>>
    /\ UNCHANGED <<gen, targetSize, run, firstLen>>

\* one full-length comment line
DxfWriteLine ==
    /\ gen = "dxf" /\ pc = "pad" /\ loc.i < loc.fullLines
    /\ fs' = [fs EXCEPT ![dxfTemp(loc.ext)] = File(@.len + bytesPerComment)]
    /\ loc' = [loc EXCEPT !.i = @ + 1]
    /\ UNCHANGED <<gen, pc, targetSize, err, out, run, firstLen>>

\* the last, shorter line if any, f.Close and the rename
DxfFinish ==
    /\ gen = "dxf" /\ pc = "pad" /\ ~(loc.i < loc.fullLines)
    /\ LET lastLine == IF loc.remainder > 0 THEN dxfLastLineLen(loc.remainder) ELSE 0
       IN  /\ fs' = dxfRename([fs EXCEPT ![dxfTemp(loc.ext)] = File(@.len + lastLine)],
                              loc.ext)
           /\ out' = [kind |-> "dxf", baseSize |-> loc.baseSize, fullLines |-> loc.i,
                      lastLine |-> lastLine]
    /\ pc' = "done"
    /\ UNCHANGED <<gen, targetSize, err, loc, run, firstLen>>

DxfNext == DxfSaveAs \/ DxfCheckSize \/ DxfWriteLine \/ DxfFinish

SpecDxf == DxfInit /\ [][DxfNext]_vars

widthMB == 128 \div 16

heightMB == 96 \div 16

\* len(generateH264Elementary()): sps, pps, sliceHeader, the macroblocks
\* (a 2-byte header and 16*16 + 8*8 + 8*8 zero bytes each) and the stop byte
hlen == 11 + 8 + 9 + heightMB * widthMB * (2 + (16 * 16 + 8 * 8 + 8 * 8)) + 1

\* the size of ftyp + moov with an empty stts box
Mp4InitLow == 700

Mp4InitSpan == 1

\* one (sample count, sample delta) entry in an encoded stts box
sttsEntryLen == 8

\* zero := make([]byte, 4096)
mp4ZeroLen == 4096

\* x / d and x % d for a size x >= 0 and a divisor below 2^15
WideDiv(x, d) == [hi |-> x.hi \div d, lo |-> ((x.hi % d) * bufSize + x.lo) \div d]

WideMod(x, d) == ((x.hi % d) * bufSize + x.lo) % d

WidePlus(x, y) == Wide(x.hi + y.hi, x.lo + y.lo)

\* q * d for a small factor d
WideTimes(q, d) == Wide(q.hi * d, q.lo * d)

\* the stbl box as mp4ff keeps it: the list of children that Encode walks,
\* and the Stts field that names one of them; number of stts entries in each
emptyTrak == [childSttsEntries |-> 0, fieldSttsEntries |-> 0]

\* tr.Mdia.Minf.Stbl.Stts = &mp4.SttsBox{...}: the field is replaced, the
\* list of children still holds the box CreateEmptyTrak added
patchStts(trak, entries) == [trak EXCEPT !.fieldSttsEntries = entries]

\* ftyp.Encode and init.Moov.Encode: the boxes are written from the children
encodedInitLen(base, trak) == base + sttsEntryLen * trak.childSttsEntries

Mp4MaxExtra == 12

Mp4TargetsFor(initSize) ==
    {Wide(0, -500), Wide(0, 0), Wide(0, initSize)}
    \cup {Wide(h, l) : h \in {0, Pow2(16) - 1, Pow2(16)},
                       l \in (initSize + hlen + 8 - 3)..(initSize + hlen + 8 + Mp4MaxExtra)}
    \cup {Wide(0, initSize + 2 * hlen + 8 + k) : k \in 0..Mp4MaxExtra}
    \cup {Wide(0, initSize + 3 * hlen + 8 - 1 - k) : k \in 0..Mp4MaxExtra}

Mp4Targets == UNION {Mp4TargetsFor(Mp4InitLow + d) : d \in 0..Mp4InitSpan}

Mp4Init == StartCall("mp4", Mp4Targets)

\* steps 1 to 3: the frame, the init segment, os.Create, ftyp and moov flushed
Mp4WriteInit ==
    /\ gen = "mp4" /\ pc = "start"
    /\ \E base \in Mp4InitLow..(Mp4InitLow + Mp4InitSpan) :
        /\ fs' = [fs EXCEPT !["path"] =
                     [exists |-> TRUE, len |-> Wide(0, encodedInitLen(base, emptyTrak))]]
        /\ loc' = [base |-> base, trak |-> emptyTrak,
                   initSize |-> encodedInitLen(base, emptyTrak)]
    /\ pc' = "init"
    /\ UNCHANGED <<gen, targetSize, err, out, run, firstLen>>

\* steps 4 and 5: mdatTotal, the minimum check, payload and repeats
Mp4CheckSize ==
    /\ gen = "mp4" /\ pc = "init"
    /\ LET mdatTotal == WideAdd(targetSize, -loc.initSize)
           payload == WideAdd(mdatTotal, -8)
           quotient == WideDiv(payload, hlen)
       IN  IF WideLess(mdatTotal, hlen + 8)
           THEN err' = "too small" /\ pc' = "done" /\ loc' = loc
           ELSE /\ err' = err /\ pc' = "rewrite"
                /\ loc' = [base |-> loc.base, trak |-> loc.trak,
                           initSize |-> loc.initSize, mdatTotal |-> mdatTotal,
                           payload |-> payload,
                           repeats |-> IF WideLess(quotient, 1) THEN Wide(0, 1)
                                       ELSE quotient]
    /\ UNCHANGED <<gen, targetSize, fs, out, run, firstLen>>

\* steps 6 and 7: durations and stts patched, file truncated, ftyp and moov
\* encoded again
Mp4Rewrite ==
    /\ gen = "mp4" /\ pc = "rewrite"
    /\ LET trak == patchStts(loc.trak, 1)
       IN  /\ loc' = [loc EXCEPT !.trak = trak]
           /\ fs' = [fs EXCEPT !["path"] =
                        [exists |-> TRUE, len |-> Wide(0, encodedInitLen(loc.base, trak))]]
    /\ pc' = "mdat"
    /\ UNCHANGED <<gen, targetSize, err, out, run, firstLen>>

\* steps 8 and 9: the mdat header with uint32(mdatTotal), then repeats frames
Mp4WriteMdat ==
    /\ gen = "mp4" /\ pc = "mdat"
    /\ LET frames == WideTimes(loc.repeats, hlen)
       IN  /\ fs' = [fs EXCEPT !["path"] =
                        [exists |-> TRUE, len |-> WidePlus(WideAdd(@.len, 8), frames)]]
           /\ loc' = [base |-> loc.base, trak |-> loc.trak, initSize |-> loc.initSize,
                      mdatTotal |-> loc.mdatTotal, payload |-> loc.payload,
                      repeats |-> loc.repeats,
                      initInFile |-> fs["path"].len.lo,
                      mdatField |-> Uint32(loc.mdatTotal),
                      mdatWritten |-> WideAdd(frames, 8),
                      rem |-> WideMod(loc.payload, hlen), padded |-> 0]
    /\ pc' = "padrem"
    /\ UNCHANGED <<gen, targetSize, err, out, run, firstLen>>

\* step 10: one write of at most 4096 zero bytes
Mp4PadChunk ==
    /\ gen = "mp4" /\ pc = "padrem" /\ loc.rem > 0
    /\ LET n == Min(mp4ZeroLen, loc.rem)
       IN  /\ loc' = [loc EXCEPT !.rem = @ - n, !.padded = @ + n,
                                 !.mdatWritten = WideAdd(@, n)]
           /\ fs' = [fs EXCEPT !["path"] = [exists |-> TRUE, len |-> WideAdd(@.len, n)]]
    /\ UNCHANGED <<gen, pc, targetSize, err, out, run, firstLen>>

\* f.Close()
Mp4Close ==
    /\ gen = "mp4" /\ pc = "padrem" /\ ~(loc.rem > 0)
    /\ out' = [kind |-> "mp4", initUsed |-> loc.initSize, initInFile |-> loc.initInFile,
               mdatField |-> loc.mdatField, mdatWritten |-> loc.mdatWritten,
               repeats |-> loc.repeats, padded |-> loc.padded,
               sttsEntries |-> loc.trak.childSttsEntries]
    /\ pc' = "done"
    /\ UNCHANGED <<gen, targetSize, err, fs, loc, run, firstLen>>

Mp4Next ==
    Mp4WriteInit \/ Mp4CheckSize \/ Mp4Rewrite \/ Mp4WriteMdat \/ Mp4PadChunk \/ Mp4Close

SpecMp4 == Mp4Init /\ [][Mp4Next]_vars

\* C12: after a successful run the length declared in the mdat header is the
\* number of bytes written for the box (8 + repeats * frame length + padding,
\* repeats = floor(payload / frame length) >= 1), the init length used for it
\* is the init length in the file, and init + declared mdat = file = target
Mp4BoxesSumToTarget ==
    (gen = "mp4" /\ pc = "done" /\ err = "")
        => /\ out.mdatField = out.mdatWritten
           /\ out.mdatWritten = WideAdd(WideTimes(out.repeats, hlen), 8 + out.padded)
           /\ out.repeats = WideDiv(WideAdd(targetSize, -(out.initUsed + 8)), hlen)
           /\ ~WideLess(out.repeats, 1)
           /\ out.initUsed = out.initInFile
           /\ WideAdd(out.mdatField, out.initInFile) = fs["path"].len
           /\ fs["path"].len = targetSize

(***************************************************************************)
(* All generators                                                          *)
(***************************************************************************)

Init ==
    \/ DwgInit \/ ZipInit \/ WavInit \/ PngInit \/ JpegInit
    \/ JsonInit \/ DxfInit \/ Mp4Init

Next ==
    \/ DwgNext \/ ZipNext \/ WavNext \/ PngNext \/ JpegNext
    \/ JsonNext \/ DxfNext \/ Mp4Next

Spec == Init /\ [][Next]_vars

\* the errors that report a target below the format's minimum
TooSmallErrs == {"too small", "minimum DXF is"}

\* C3: after a too-small error of any generator no file exists at the output path
NoFileAfterTooSmall ==
    (pc = "done" /\ err \in TooSmallErrs) => ~fs["path"].exists

(***************************************************************************)
(* Two runs with the same format and target                                *)
(***************************************************************************)

TwiceMaxExtra == 1

TwiceDwgTargets == DwgMinimum..(DwgMinimum + TwiceMaxExtra)

TwiceJsonTargets == {1} \cup (120..(123 + TwiceMaxExtra))

TwiceInit == StartCall("dwg", TwiceDwgTargets) \/ StartCall("json", TwiceJsonTargets)

\* a second call of Generate with the same path and target after a successful one
Rerun ==
    /\ pc = "done" /\ err = "" /\ run = 1
    /\ run' = 2 /\ firstLen' = fs["path"].len
    /\ pc' = "start" /\ loc' = NoLoc /\ out' = NoOut
    /\ UNCHANGED <<gen, targetSize, err, fs>>

TwiceNext == DwgNext \/ JsonNext \/ Rerun

SpecTwice == TwiceInit /\ [][TwiceNext]_vars

\* C4: two successful runs with the same format and target leave files of
\* the same length
LengthDeterminism ==
    (run = 2 /\ pc = "done" /\ err = "") => fs["path"].len = firstLen

(***************************************************************************)
(* HtmlGenerator.Generate                                                  *)
(***************************************************************************)

\* len(htmlTemplateStart)
htmlStartLen == 355

\* len(htmlTemplateEnd)
htmlEndLen == 16

commentOverhead == 7

\* bufSize := 4096, the most content written per loop iteration
htmlBufSize == 4096

\* htmlTemplateStart[:n]: the slice expression panics when n exceeds the length
sliceStart(n) ==
    IF n > htmlStartLen THEN [panic |-> TRUE, len |-> 0]
    ELSE [panic |-> FALSE, len |-> n]

HtmlMaxBelow == 20

HtmlMaxExtra == 12

HtmlTargets ==
    {-3, -1, 0, 1, 100}
    \cup ((htmlStartLen - HtmlMaxBelow)..(htmlStartLen + htmlEndLen + HtmlMaxExtra))
    \cup {htmlStartLen + htmlEndLen + htmlBufSize + k : k \in 0..HtmlMaxExtra}

HtmlInit == StartCall("html", HtmlTargets)

\* targetSize < baseSize: os.WriteFile of the truncated start of the template
HtmlTruncate ==
    /\ gen = "html" /\ pc = "start"
    /\ targetSize < htmlStartLen + htmlEndLen
    /\ LET r == sliceStart(IF targetSize < 0 THEN 0 ELSE targetSize)
       IN  IF r.panic
           THEN err' = "panic" /\ fs' = fs /\ out' = out
           ELSE /\ err' = err
                /\ fs' = [fs EXCEPT !["path"] = File(r.len)]
                /\ out' = [kind |-> "html", startBytes |-> r.len, padded |-> 0,
                           endBytes |-> 0]
    /\ pc' = "done"
    /\ UNCHANGED <<gen, targetSize, loc, run, firstLen>>

\* os.Create, the start of the template, paddingBytesNeeded
HtmlOpen ==
    /\ gen = "html" /\ pc = "start"
    /\ ~(targetSize < htmlStartLen + htmlEndLen)
    /\ fs' = [fs EXCEPT !["path"] = File(htmlStartLen)]
    /\ loc' = [paddingBytesNeeded |-> Max(targetSize - (htmlStartLen + htmlEndLen), 0),
               bytesPadded |-> 0]
    /\ pc' = "pad"
    /\ UNCHANGED <<gen, targetSize, err, out, run, firstLen>>

\* one iteration writing a block of generated content
HtmlPadBlock ==
    /\ gen = "html" /\ pc = "pad"
    /\ loc.bytesPadded < loc.paddingBytesNeeded
    /\ loc.paddingBytesNeeded - loc.bytesPadded - commentOverhead > 0
    /\ LET contentSize == Min(htmlBufSize,
                              loc.paddingBytesNeeded - loc.bytesPadded - commentOverhead)
       IN  /\ loc' = [loc EXCEPT !.bytesPadded = @ + contentSize]
           /\ fs' = [fs EXCEPT !["path"] = File(@.len + contentSize)]
    /\ UNCHANGED <<gen, pc, targetSize, err, out, run, firstLen>>

\* the last iteration (raw padding and break) or the loop guard failing, then
\* the end of the template, Sync and Stat
HtmlFinish ==
    /\ gen = "html" /\ pc = "pad"
    /\ ~(/\ loc.bytesPadded < loc.paddingBytesNeeded
         /\ loc.paddingBytesNeeded - loc.bytesPadded - commentOverhead > 0)
    /\ LET raw == Max(loc.paddingBytesNeeded - loc.bytesPadded, 0)
       IN  /\ fs' = [fs EXCEPT !["path"] = File(@.len + raw + htmlEndLen)]
           /\ out' = [kind |-> "html", startBytes |-> htmlStartLen,
                      padded |-> loc.bytesPadded + raw, endBytes |-> htmlEndLen]
    /\ pc' = "done"
    /\ UNCHANGED <<gen, targetSize, err, loc, run, firstLen>>

HtmlNext == HtmlTruncate \/ HtmlOpen \/ HtmlPadBlock \/ HtmlFinish

SpecHtml == HtmlInit /\ [][HtmlNext]_vars

\* C11: a target below the minimal template size gives, without error or
\* crash, the first max(targetSize, 0) bytes of the template
HtmlTruncatesBelowMinimum ==
    (gen = "html" /\ pc = "done" /\ targetSize < htmlStartLen + htmlEndLen)
        => /\ err = ""
           /\ fs["path"] = File(Max(targetSize, 0))
           /\ out.startBytes = Max(targetSize, 0) /\ out.padded = 0 /\ out.endBytes = 0

(***************************************************************************)
(* FileService.CreateFile with an injected parser and factory              *)
(***************************************************************************)

\* a string as the sequence of its characters
lowerOf ==
    ("T" :> "t") @@ ("X" :> "x") @@ ("D" :> "d") @@ ("W" :> "w") @@ ("G" :> "g")

\* strings.ToLower
ToLower(str) ==
    [i \in 1..Len(str) |-> IF str[i] \in DOMAIN lowerOf THEN lowerOf[str[i]] ELSE str[i]]

RECURSIVE ExtFrom(_, _)
ExtFrom(path, i) ==
    IF i < 1 \/ path[i] = "/" THEN <<>>
    ELSE IF path[i] = "." THEN SubSeq(path, i, Len(path))
    ELSE ExtFrom(path, i - 1)

\* filepath.Ext: from the last dot of the last path element, or empty
Ext(path) == ExtFrom(path, Len(path))

\* strings.TrimPrefix(s, ".")
TrimDot(str) == IF Len(str) > 0 /\ str[1] = "." THEN Tail(str) ELSE str

extensionTable ==
    (<<"t", "x", "t">> :> "txt") @@ (<<"t", "e", "x", "t">> :> "txt") @@
    (<<"p", "n", "g">> :> "png") @@
    (<<"j", "p", "g">> :> "jpeg") @@ (<<"j", "p", "e", "g">> :> "jpeg") @@
    (<<"m", "p", "4">> :> "mp4") @@ (<<"m", "4", "v">> :> "m4v") @@
    (<<"w", "a", "v">> :> "wav") @@
    (<<"d", "w", "g">> :> "dwg") @@ (<<"d", "x", "f">> :> "dxf") @@
    (<<"z", "i", "p">> :> "zip") @@
    (<<"x", "l", "s", "x">> :> "xlsx") @@ (<<"d", "o", "c", "x">> :> "docx") @@
    (<<"p", "d", "f">> :> "pdf") @@ (<<"c", "s", "v">> :> "csv") @@
    (<<"j", "s", "o", "n">> :> "json") @@ (<<"h", "t", "m", "l">> :> "html") @@
    (<<"m", "d">> :> "md") @@ (<<"l", "o", "g">> :> "log") @@
    (<<"x", "m", "l">> :> "xml") @@ (<<"g", "i", "f">> :> "gif")

\* a mapping that lets every extension through as a text file
mapExtensionAnything(ext) ==
    IF ext \in DOMAIN extensionTable THEN [type |-> extensionTable[ext], err |-> ""]
    ELSE [type |-> "txt", err |-> ""]

mapExtensionToFileType(ext) ==
    IF ext \in DOMAIN extensionTable THEN [type |-> extensionTable[ext], err |-> ""]
    ELSE [type |-> "", err |-> "unsupported file extension"]

SvcPaths ==
    { <<"a", ".", "t", "x", "t">>, <<"a", ".", "T", "X", "T">>, <<"a", ".", "D", "w", "g">>,
      <<"a", ".", "b", ".", "p", "n", "g">>, <<"d", ".", "x", "/", "a">>,
      <<"a", ".", "f", "o", "o">>, <<"a", ".">>, <<"a">>, <<".", "g", "i", "f">> }

\* what the injected parser answers: a byte count, or an error
SvcSizes == {0, 1024}

\* what the injected factory has registered
SvcRegistries == { {}, {"txt"}, {"txt", "png", "dwg", "gif"} }

SvcInit ==
    /\ gen = "svc" /\ pc = "start" /\ targetSize = 0 /\ err = ""
    /\ fs = EmptyFs /\ out = NoOut /\ run = 1 /\ firstLen = 0
    /\ \E p \in SvcPaths, reg \in SvcRegistries :
          loc = [outPath |-> p, registered |-> reg, calls |-> <<>>,
                 parsed |-> FALSE, sizeBytes |-> 0, fileType |-> ""]

\* step 1: s.parser.Parse(sizeSpec)
SvcParse ==
    /\ gen = "svc" /\ pc = "start"
    /\ \/ /\ err' = "invalid size" /\ pc' = "done"
          /\ loc' = [loc EXCEPT !.calls = Append(@, [op |-> "Parse"])]
       \/ \E n \in SvcSizes :
             /\ loc' = [loc EXCEPT !.calls = Append(@, [op |-> "Parse"]),
                                   !.parsed = TRUE, !.sizeBytes = n]
             /\ err' = "" /\ pc' = "map"
    /\ UNCHANGED <<gen, targetSize, fs, out, run, firstLen>>

\* step 2: the lower-cased extension without its dot, through the table
SvcMapExtension ==
    /\ gen = "svc" /\ pc = "map"
    /\ LET r == mapExtensionToFileType(ToLower(TrimDot(Ext(loc.outPath))))
       IN  IF r.err # ""
           THEN err' = r.err /\ pc' = "done" /\ loc' = loc
           ELSE err' = "" /\ pc' = "lookup" /\ loc' = [loc EXCEPT !.fileType = r.type]
    /\ UNCHANGED <<gen, targetSize, fs, out, run, firstLen>>

\* step 3: s.factory.For(fileType)
SvcLookup ==
    /\ gen = "svc" /\ pc = "lookup"
    /\ loc' = [loc EXCEPT !.calls = Append(@, [op |-> "For", type |-> loc.fileType])]
    /\ IF loc.fileType \in loc.registered
       THEN err' = "" /\ pc' = "generate"
       ELSE err' = "no generator for type" /\ pc' = "done"
    /\ UNCHANGED <<gen, targetSize, fs, out, run, firstLen>>

\* step 4: generator.Generate(outPath, sizeBytes), which may fail
SvcGenerate ==
    /\ gen = "svc" /\ pc = "generate"
    /\ loc' = [loc EXCEPT !.calls = Append(@, [op |-> "Generate", type |-> loc.fileType,
                                               path |-> loc.outPath, size |-> loc.sizeBytes])]
    /\ err' \in {"", "failed to generate"}
    /\ pc' = "done"
    /\ UNCHANGED <<gen, targetSize, fs, out, run, firstLen>>

SvcNext == SvcParse \/ SvcMapExtension \/ SvcLookup \/ SvcGenerate

SpecSvc == SvcInit /\ [][SvcNext]_vars

\* the extension of the path, compared without regard to case, is in the table
svcExtKnown == ToLower(TrimDot(Ext(loc.outPath))) \in DOMAIN extensionTable

svcGenerateCalls == { i \in 1..Len(loc.calls) : loc.calls[i].op = "Generate" }

\* C13: the calls are made in the order Parse, For, Generate; Generate is
\* called at most once and only after the size parsed, the extension was
\* found in the table and the factory had a generator, with the path as given
\* and the parsed byte count; a failure of an earlier step ends in an error
CreateFileOrder ==
    gen = "svc" =>
        /\ Cardinality(svcGenerateCalls) <= 1
        /\ \A i \in 1..Len(loc.calls) :
              /\ (i = 1) = (loc.calls[i].op = "Parse")
              /\ (i = 2) = (loc.calls[i].op = "For")
              /\ (i = 3) = (loc.calls[i].op = "Generate")
              /\ loc.calls[i].op = "For" =>
                    /\ loc.parsed /\ svcExtKnown
                    /\ loc.calls[i].type = extensionTable[ToLower(TrimDot(Ext(loc.outPath)))]
              /\ loc.calls[i].op = "Generate" =>
                    /\ loc.calls[i].type \in loc.registered
                    /\ loc.calls[i].path = loc.outPath
                    /\ loc.calls[i].size = loc.sizeBytes
                    /\ loc.sizeBytes \in SvcSizes
        /\ (pc = "done" /\ (~loc.parsed \/ ~svcExtKnown \/ loc.fileType \notin loc.registered))
              => (err # "" /\ svcGenerateCalls = {})
        /\ (pc = "done" /\ svcGenerateCalls = {}) => err # ""

\* Generate was called for an upper-case extension after all three steps
CreateFileWitness ==
    /\ gen = "svc" /\ pc = "done" /\ err = ""
    /\ loc.outPath = <<"a", ".", "T", "X", "T">>
    /\ Len(loc.calls) = 3 /\ loc.calls[3].op = "Generate" /\ loc.calls[3].size = 1024

(***************************************************************************)
(* utils.ParseSize                                                         *)
(***************************************************************************)

\* an int64 as four 16-bit limbs, least significant first, two's complement
int64Zero == <<0, 0, 0, 0>>

RECURSIVE MulAdd(_, _, _)
\* x * k + c on limbs, for a factor k of at most 1024, with the carry out
MulAdd(x, k, c) ==
    IF x = <<>> THEN [limbs |-> <<>>, carry |-> c]
    ELSE LET v == x[1] * k + c
             r == MulAdd(Tail(x), k, v \div bufSize)
         IN  [limbs |-> <<v % bufSize>> \o r.limbs, carry |-> r.carry]

\* -x in two's complement
Negate(x) == MulAdd([i \in 1..Len(x) |-> bufSize - 1 - x[i]], 1, 1).limbs

IsNegative(x) == x[Len(x)] >= Pow2(15)

digitVal ==
    ("0" :> 0) @@ ("1" :> 1) @@ ("2" :> 2) @@ ("3" :> 3) @@ ("4" :> 4) @@
    ("5" :> 5) @@ ("6" :> 6) @@ ("7" :> 7) @@ ("8" :> 8) @@ ("9" :> 9)

IsDigit(c) == c \in DOMAIN digitVal

RECURSIVE ParseMagnitude(_, _)
\* the decimal digits read into limbs; "range" once the value needs more limbs
ParseMagnitude(digits, acc) ==
    IF digits = <<>> THEN [limbs |-> acc, err |-> ""]
    ELSE LET r == MulAdd(acc, 10, digitVal[digits[1]])
         IN  IF r.carry > 0 THEN [limbs |-> acc, err |-> "range"]
             ELSE ParseMagnitude(Tail(digits), r.limbs)

\* strconv.ParseInt(tok, 10, 64) for a token of an optional sign and digits
ParseInt(neg, digits) ==
    LET m == ParseMagnitude(digits, int64Zero)
        minInt == <<0, 0, 0, Pow2(15)>>
    IN  IF m.err # "" THEN [value |-> int64Zero, err |-> "value out of range"]
        ELSE IF ~neg /\ IsNegative(m.limbs) THEN [value |-> int64Zero, err |-> "value out of range"]
        ELSE IF neg /\ IsNegative(m.limbs) /\ m.limbs # minInt
             THEN [value |-> int64Zero, err |-> "value out of range"]
        ELSE [value |-> IF neg THEN Negate(m.limbs) ELSE m.limbs, err |-> ""]

RECURSIVE DigitRun(_)
\* the longest prefix of digits
DigitRun(str) ==
    IF str # <<>> /\ IsDigit(str[1]) THEN <<str[1]>> \o DigitRun(Tail(str)) ELSE <<>>

RECURSIVE TrimLeft(_)
TrimLeft(str) == IF str # <<>> /\ str[1] = " " THEN TrimLeft(Tail(str)) ELSE str

RECURSIVE TrimRight(_)
TrimRight(str) ==
    IF str # <<>> /\ str[Len(str)] = " " THEN TrimRight(SubSeq(str, 1, Len(str) - 1)) ELSE str

\* strings.TrimSpace
TrimSpace(str) == TrimRight(TrimLeft(str))

upperOf == ("b" :> "B") @@ ("k" :> "K") @@ ("m" :> "M") @@ ("g" :> "G")

\* strings.ToUpper
ToUpper(str) ==
    [i \in 1..Len(str) |-> IF str[i] \in DOMAIN upperOf THEN upperOf[str[i]] ELSE str[i]]

\* fmt.Sscanf(numPart, "%d", &baseVal): leading spaces, an optional sign and
\* the digits that follow; what comes after them is left unread
Sscanf(numPart) ==
    LET t == TrimLeft(numPart)
        signed == t # <<>> /\ t[1] \in {"+", "-"}
        digits == DigitRun(IF signed THEN Tail(t) ELSE t)
    IN  IF t = <<>> THEN [value |-> int64Zero, err |-> "unexpected EOF"]
        ELSE IF digits = <<>> THEN [value |-> int64Zero, err |-> "expected integer"]
        ELSE ParseInt(signed /\ t[1] = "-", digits)

\* the power of 1024 of each suffix of the suffixes map
suffixes ==
    (<<"B">> :> 0) @@ (<<"K">> :> 1) @@ (<<"K", "B">> :> 1) @@ (<<"M">> :> 2) @@
    (<<"M", "B">> :> 2) @@ (<<"G">> :> 3) @@ (<<"G", "B">> :> 3)

RECURSIVE TimesKiB(_, _)
\* x * 1024^e in int64, wrapping
TimesKiB(x, e) == IF e = 0 THEN x ELSE TimesKiB(MulAdd(x, 1024, 0).limbs, e - 1)

\* the loop over the runes: numPart and suffix at the first non-digit
splitAt(sizeStr) ==
    LET d == DigitRun(sizeStr)
    IN  IF Len(d) = Len(sizeStr) THEN [numPart |-> <<>>, suffix |-> <<>>]
        ELSE [numPart |-> d,
              suffix |-> TrimSpace(SubSeq(sizeStr, Len(d) + 1, Len(sizeStr)))]

ParseLeads ==
    { <<>>, <<"-">>, <<"+">>, <<" ">> }

ParseNumerals ==
    {
      <<>>, <<"0">>, <<"7">>, <<"1", "0">>, <<"0", "0", "7">>, <<"1", "0", "2", "4">>,
      <<"8", "5", "8", "9", "9", "3", "4", "5", "9", "1">>,
      <<"8", "5", "8", "9", "9", "3", "4", "5", "9", "2">>,
      <<"9", "2", "2", "3", "3", "7", "2", "0", "3", "6", "8", "5", "4", "7", "7", "5", "8", "0", "7">>,
      <<"9", "2", "2", "3", "3", "7", "2", "0", "3", "6", "8", "5", "4", "7", "7", "5", "8", "0", "8">> }

ParseTails ==
    {
      <<>>, <<"B">>, <<"b">>, <<"K">>, <<"k">>, <<"K", "B">>, <<"k", "b">>,
      <<"K", "b">>, <<"M">>, <<"M", "B">>, <<"m", "b">>, <<"G">>, <<"g">>,
      <<"G", "B">>, <<"P">>, <<"T">>, <<"K", "B", "B">>, <<".", "5", "K">>,
      <<" ", "M", "B">>, <<"M", " ", "B">> }

ParseInit ==
    /\ gen = "parse" /\ pc = "start" /\ targetSize = 0 /\ err = ""
    /\ fs = EmptyFs /\ out = NoOut /\ run = 1 /\ firstLen = 0
    /\ \E l \in ParseLeads, n \in ParseNumerals, t \in ParseTails :
          loc = [lead |-> l, numeral |-> n, tail |-> t, sizeStr |-> l \o n \o t,
                 numPart |-> <<>>, suffix |-> <<>>, baseVal |-> int64Zero]

\* sizeStr == ""
ParseEmpty ==
    /\ gen = "parse" /\ pc = "start" /\ loc.sizeStr = <<>>
    /\ err' = "size string is empty" /\ pc' = "done"
    /\ UNCHANGED <<gen, targetSize, fs, loc, out, run, firstLen>>

\* TrimSpace, ToUpper, the split, and the fallback to the whole string
ParseSplit ==
    /\ gen = "parse" /\ pc = "start" /\ loc.sizeStr # <<>>
    /\ LET str == ToUpper(TrimSpace(loc.sizeStr))
           parts == splitAt(str)
       IN  loc' = IF parts.numPart = <<>>
                  THEN [loc EXCEPT !.numPart = str, !.suffix = <<>>]
                  ELSE [loc EXCEPT !.numPart = parts.numPart, !.suffix = parts.suffix]
    /\ pc' = "scan"
    /\ UNCHANGED <<gen, targetSize, err, fs, out, run, firstLen>>

\* the numeric part through Sscanf
ParseScan ==
    /\ gen = "parse" /\ pc = "scan"
    /\ LET r == Sscanf(loc.numPart)
       IN  IF r.err # ""
           THEN err' = "invalid size number" /\ pc' = "done" /\ loc' = loc
           ELSE err' = "" /\ pc' = "suffix" /\ loc' = [loc EXCEPT !.baseVal = r.value]
    /\ UNCHANGED <<gen, targetSize, fs, out, run, firstLen>>

\* no suffix or B, an unknown suffix, or baseVal * mult
ParseScale ==
    /\ gen = "parse" /\ pc = "suffix"
    /\ IF loc.suffix = <<>> \/ loc.suffix = <<"B">>
       THEN err' = "" /\ out' = [kind |-> "size", value |-> loc.baseVal]
       ELSE IF loc.suffix \notin DOMAIN suffixes
            THEN err' = "unknown size suffix" /\ out' = NoOut
            ELSE /\ err' = ""
                 /\ out' = [kind |-> "size",
                            value |-> TimesKiB(loc.baseVal, suffixes[loc.suffix])]
    /\ pc' = "done"
    /\ UNCHANGED <<gen, targetSize, fs, loc, run, firstLen>>

ParseNext == ParseEmpty \/ ParseSplit \/ ParseScan \/ ParseScale

SpecParse == ParseInit /\ [][ParseNext]_vars

\* the suffixes a size may carry, with their power of 1024
sizeSuffixPower ==
    (<<>> :> 0) @@ (<<"B">> :> 0) @@ (<<"K">> :> 1) @@ (<<"K", "B">> :> 1) @@
    (<<"M">> :> 2) @@ (<<"M", "B">> :> 2) @@ (<<"G">> :> 3) @@ (<<"G", "B">> :> 3)

\* n * 1024^e as a number of six limbs, enough for any numeral of the inputs
exactProduct(numeral, e) ==
    TimesKiB(ParseMagnitude(numeral, int64Zero \o <<0, 0>>).limbs, e)

noSpaces(str) == \A i \in 1..Len(str) : str[i] # " "

\* C14: digits with an optional suffix B, K, KB, M, MB, G, GB in any case give
\* n * m without error; the empty string, no leading digits, a decimal point
\* or another suffix give an error
ParseSizeValues ==
    (gen = "parse" /\ pc = "done" /\ noSpaces(loc.sizeStr)) =>
        IF /\ loc.lead = <<>> /\ loc.numeral # <<>>
           /\ ToUpper(loc.tail) \in DOMAIN sizeSuffixPower
        THEN /\ err = ""
             /\ out.value \o <<0, 0>> =
                    exactProduct(loc.numeral, sizeSuffixPower[ToUpper(loc.tail)])
        ELSE err # ""

\* C15: a minus sign followed by digits is rejected, and a size that parsed
\* is never negative
ParseSizeRejectsNegative ==
    (gen = "parse" /\ pc = "done") =>
        /\ (loc.lead = <<"-">> /\ loc.numeral # <<>>) => err # ""
        /\ err = "" => ~IsNegative(out.value)

(***************************************************************************)
(* The command line program: init-time registration, then CreateFile       *)
(***************************************************************************)

\* the adapter packages main.go imports for their init functions
cliImports ==
    <<"csv", "docx", "dxf", "html", "jpeg", "json", "mp4", "pdf", "png", "txt",
      "wav", "xlsx", "zip">>

\* the file types the init function of each adapter package registers; the
\* docx, json, mp4 and wav packages show no init function in their files at
\* hand, so they register their own types or nothing
initRegisters ==
    [csv |-> {{"csv"}}, docx |-> {{}, {"docx"}}, dxf |-> {{"dxf", "dwg"}},
     html |-> {{"html"}}, jpeg |-> {{"jpeg"}}, json |-> {{}, {"json"}},
     mp4 |-> {{}, {"mp4", "m4v"}}, pdf |-> {{"pdf"}}, png |-> {{"png"}},
     txt |-> {{"txt", "log", "md"}}, wav |-> {{}, {"wav"}}, xlsx |-> {{"xlsx"}},
     zip |-> {{"zip"}}, xml |-> {{"xml"}}, gif |-> {{"gif"}}, dwg |-> {{"dwg"}}]

\* factory.RegisterGenerator for each type of a package, into the shared map
RegisterGenerator(registry, types) == registry \cup types

CliInit ==
    /\ gen = "cli" /\ pc = "init" /\ targetSize = 0 /\ err = ""
    /\ fs = EmptyFs /\ out = NoOut /\ run = 1 /\ firstLen = 0
    /\ loc = [next |-> 1, registry |-> {}]

\* the init function of the next imported package
CliPackageInit ==
    /\ gen = "cli" /\ pc = "init" /\ loc.next <= Len(cliImports)
    /\ \E types \in initRegisters[cliImports[loc.next]] :
          loc' = [next |-> loc.next + 1, registry |-> RegisterGenerator(loc.registry, types)]
    /\ UNCHANGED <<gen, pc, targetSize, err, fs, out, run, firstLen>>

\* main: the factory over the registry as the init functions left it
CliMain ==
    /\ gen = "cli" /\ pc = "init" /\ loc.next > Len(cliImports)
    /\ pc' = "main"
    /\ UNCHANGED <<gen, targetSize, err, fs, loc, out, run, firstLen>>

\* CreateFile for a path with an extension of the table, up to the lookup
CliCreateFile ==
    /\ gen = "cli" /\ pc = "main"
    /\ \E ext \in DOMAIN extensionTable :
          LET r == mapExtensionToFileType(ext)
          IN  /\ out' = [kind |-> "cli", ext |-> ext, fileType |-> r.type]
              /\ err' = IF r.err # "" THEN r.err
                        ELSE IF r.type \in loc.registry THEN ""
                        ELSE "no generator for type"
    /\ pc' = "done"
    /\ UNCHANGED <<gen, targetSize, fs, loc, run, firstLen>>

CliNext == CliPackageInit \/ CliMain \/ CliCreateFile

SpecCli == CliInit /\ [][CliNext]_vars

\* C16: after the init functions of the imported packages every file type of
\* the extension table has a generator, so CreateFile does not fail with
\* "no generator for type" for an extension of the table
CliRegistryCovers ==
    /\ (gen = "cli" /\ pc = "main") =>
          \A ext \in DOMAIN extensionTable : extensionTable[ext] \in loc.registry
    /\ (gen = "cli" /\ pc = "done") => err # "no generator for type"

(***************************************************************************)
(* DWGGenerator.Generate: the owned-object count of the Model Space record *)
(***************************************************************************)

RECURSIVE readBits(_, _, _, _)
\* the value writeBits(value, bits) left at byte p (from 1), bit bitPos
readBits(sec, p, bitPos, bits) ==
    LET space == 8 - bitPos
    IN  IF bits <= space
        THEN (sec[p] \div Pow2(space - bits)) % Pow2(bits)
        ELSE (sec[p] % Pow2(space)) + Pow2(space) * readBits(sec, p + 1, 0, bits - space)

\* the second BITSHORT behind the name of the block record at offset objPos:
\* two length bytes, two bytes of type and the byte flushByteAlign adds, the
\* length byte of the name and the name, then BITSHORT 0 in two bits and the
\* count
ownedCount(sec, objPos) ==
    LET p      == objPos + 2 + 2 + 1 + 1 + Len(nameModelSpace) + 1
        prefix == readBits(sec, p, 2, 2)
    IN  IF prefix = 2 THEN 0
        ELSE IF prefix = 3 THEN 256
        ELSE IF prefix = 1 THEN readBits(sec, p, 4, 8)
        ELSE readBits(sec, p, 4, 8) + 256 * readBits(sec, p + 1, 4, 8)

\* numbers of entities the fill loop can have appended when it ends: every
\* count up to DwgPatchSmall, and the counts around the one- and two-byte
\* limits of a BITSHORT
DwgPatchSmall == 60

DwgPatchCounts ==
    (0..DwgPatchSmall) \cup (254..258) \cup ((Pow2(16) - 2)..(Pow2(16) + 2))
    \cup {3 * Pow2(16) + 7}

\* Generate when the fill loop has ended with n entities appended; the entity
\* records behind the table objects are left out of objectsSec, as the count
\* patch reads and writes none of their bytes
DwgPatchInit ==
    /\ gen = "dwgcount" /\ pc = "close" /\ err = ""
    /\ targetSize = 0 /\ fs = EmptyFs /\ out = NoOut /\ run = 1 /\ firstLen = 0
    /\ \E n \in DwgPatchCounts :
          loc = [tablesWritten EXCEPT !.entityCount = n,
                                      !.nextEntityHandle = firstEntityHandle + n]

\* the block record rebuilt with entityCount and copied over the old one
DwgPatchCount ==
    /\ gen = "dwgcount" /\ pc = "close"
    /\ out' = [kind |-> "dwgcount",
               objectsSec |-> copyInto(loc.objectsSec,
                                       offsetOf(loc.handleIndex, modelSpaceBlockHdl),
                                       blockRecord(loc.entityCount)),
               entityCount |-> loc.entityCount,
               entityEntries |-> loc.nextEntityHandle - firstEntityHandle]
    /\ pc' = "done"
    /\ UNCHANGED <<gen, targetSize, err, fs, loc, run, firstLen>>

SpecDwgCount == DwgPatchInit /\ [][DwgPatchCount]_vars

\* C17: after Generate the owned-object count encoded in the Model Space block
\* record equals the number of entity records appended, which is the number
\* of entity entries of the handle index
DwgOwnedCountMatches ==
    (gen \in {"dwg", "dwgcount"} /\ pc = "done" /\ err = "") =>
        LET entities == IF gen = "dwg"
                        THEN Cardinality({i \in 1..Len(loc.handleIndex) :
                                             loc.handleIndex[i].handle >= firstEntityHandle})
                        ELSE out.entityEntries
        IN  /\ out.entityCount = entities
            /\ ownedCount(out.objectsSec, offsetOf(loc.handleIndex, modelSpaceBlockHdl))
                   = entities

(***************************************************************************)
(* DWGGenerator.Generate: the handle index                                 *)
(***************************************************************************)

RECURSIVE recordOffsets(_, _)
\* where the object records of the section start, read from their length
\* fields: a record is its two length bytes, that many bytes, and two of CRC
recordOffsets(sec, o) ==
    IF o >= Len(sec) THEN <<>>
    ELSE <<o>> \o recordOffsets(sec, o + 4 + sec[o + 1] + 256 * sec[o + 2])

RECURSIVE littleEndian(_)
littleEndian(bytes) ==
    IF bytes = <<>> THEN 0 ELSE Head(bytes) + 256 * littleEndian(Tail(bytes))

RECURSIVE parseHandleEntries(_)
\* the entries of a handles section body: length byte, handle, 4-byte offset
parseHandleEntries(body) ==
    IF body = <<>> THEN <<>>
    ELSE LET n == body[1]
         IN  <<[handle |-> littleEndian(SubSeq(body, 2, 1 + n)),
                offset |-> littleEndian(SubSeq(body, 2 + n, 5 + n))]>>
             \o parseHandleEntries(SubSeq(body, 6 + n, Len(body)))

\* the handle the i-th appended object gets: 1..6 for the table objects, then
\* 0x100, 0x101, ... for the entities
expectedHandle(i) == IF i <= 6 THEN i ELSE firstEntityHandle + (i - 7)

\* C18: one handle index entry per appended record, handles 1..6 and then
\* consecutive from 0x100, each offset the section length when the record was
\* appended, and the handles section in strictly ascending handle order
DwgHandleIndexSound ==
    (gen = "dwg" /\ pc \in {"fill", "close", "done"}) =>
        LET idx     == loc.handleIndex
            offsets == recordOffsets(loc.objectsSec, Len(startSentinel))
        IN  /\ Len(idx) = Len(offsets)
            /\ \A i \in 1..Len(idx) :
                  idx[i].handle = expectedHandle(i) /\ idx[i].offset = offsets[i]
            /\ \A i, j \in 1..Len(idx) : i < j => idx[i].handle < idx[j].handle
            /\ Len(idx) = 6 + loc.entityCount
            /\ pc = "done" =>
                  LET listed == parseHandleEntries(
                                    SubSeq(out.handlesSec, Len(startSentinel) + 1,
                                           Len(out.handlesSec) - Len(endSentinel)))
                  IN  /\ Len(listed) = Len(idx)
                      /\ \A i \in 1..Len(listed) : listed[i] = idx[i]
                      /\ \A i \in 1..(Len(listed) - 1) :
                            listed[i].handle < listed[i + 1].handle

\* a finished file with at least two entities behind the six table objects
DwgHandleIndexWitness ==
    /\ gen = "dwg" /\ pc = "done"
    /\ loc.entityCount >= 2
    /\ Len(loc.handleIndex) = 6 + loc.entityCount
    /\ loc.handleIndex[8].handle = firstEntityHandle + 1

(***************************************************************************)
(* DWGGenerator.Generate: the fill loop for two targets, same candidates   *)
(***************************************************************************)

\* an iteration that drops a candidate that does not fit and goes on
fillIterationSkipping(st, target, rec) ==
    IF currentLen(st) >= target THEN [st |-> st, stopped |-> TRUE]
    ELSE IF futureTotal(st, rec) > target THEN [st |-> st, stopped |-> FALSE]
    ELSE [st |-> [appendObject(st, st.nextEntityHandle, rec)
                     EXCEPT !.nextEntityHandle = @ + 1, !.entityCount = @ + 1],
          stopped |-> FALSE]

\* one iteration of the fill loop with the candidate rec: break when the file
\* closed now reaches the target or the candidate would overshoot, else append
fillIteration(st, target, rec) ==
    IF currentLen(st) >= target THEN [st |-> st, stopped |-> TRUE]
    ELSE IF futureTotal(st, rec) > target THEN [st |-> st, stopped |-> TRUE]
    ELSE [st |-> [appendObject(st, st.nextEntityHandle, rec)
                     EXCEPT !.nextEntityHandle = @ + 1, !.entityCount = @ + 1],
          stopped |-> FALSE]

\* targets from one byte below the point where the fill loop starts to
\* append, in steps of seven bytes
DwgPairSteps == 10

DwgPairTargets == { currentLen(tablesWritten) - 1 + 7 * k : k \in 0..DwgPairSteps }

DwgPairInit ==
    /\ gen = "dwgpair" /\ pc = "start" /\ err = ""
    /\ fs = EmptyFs /\ out = NoOut /\ run = 1 /\ firstLen = 0
    /\ targetSize \in DwgPairTargets
    /\ \E t2 \in DwgPairTargets : t2 >= targetSize /\ loc = [kind |-> "pair", target2 |-> t2]

\* both runs up to the fill loop
DwgPairBuildTables ==
    /\ gen = "dwgpair" /\ pc = "start"
    /\ loc' = [kind |-> "pair", target2 |-> loc.target2,
               a |-> [st |-> tablesWritten, stopped |-> FALSE],
               b |-> [st |-> tablesWritten, stopped |-> FALSE]]
    /\ pc' = "fill"
    /\ UNCHANGED <<gen, targetSize, err, fs, out, run, firstLen>>

\* the next iteration of every run still in its loop, with the same candidate
DwgPairIterate ==
    /\ gen = "dwgpair" /\ pc = "fill"
    /\ ~(loc.a.stopped /\ loc.b.stopped)
    /\ \E rec \in DwgCandidates :
          loc' = [loc EXCEPT
                    !.a = IF @.stopped THEN @ ELSE fillIteration(@.st, targetSize, rec),
                    !.b = IF @.stopped THEN @ ELSE fillIteration(@.st, loc.target2, rec)]
    /\ UNCHANGED <<gen, pc, targetSize, err, fs, out, run, firstLen>>

\* both loops have ended
DwgPairEnd ==
    /\ gen = "dwgpair" /\ pc = "fill"
    /\ loc.a.stopped /\ loc.b.stopped
    /\ out' = [kind |-> "dwgpair", countA |-> loc.a.st.entityCount,
               countB |-> loc.b.st.entityCount]
    /\ pc' = "done"
    /\ UNCHANGED <<gen, targetSize, err, fs, loc, run, firstLen>>

DwgPairNext == DwgPairBuildTables \/ DwgPairIterate \/ DwgPairEnd

SpecDwgPair == DwgPairInit /\ [][DwgPairNext]_vars

\* C19: for the same candidates and targets T1 <= T2 the run for T1 appends
\* no more entity records than the run for T2, and its records are a prefix
\* of those of the run for T2
DwgGreedyMonotone ==
    (gen = "dwgpair" /\ pc \in {"fill", "done"}) =>
        LET secA == loc.a.st.objectsSec
            secB == loc.b.st.objectsSec
        IN  /\ targetSize <= loc.target2
            /\ loc.a.st.entityCount <= loc.b.st.entityCount
            /\ Len(secA) <= Len(secB)
            /\ SubSeq(secB, 1, Len(secA)) = secA
            /\ \A i \in 1..Len(loc.a.st.handleIndex) :
                  loc.b.st.handleIndex[i] = loc.a.st.handleIndex[i]

\* the smaller target took one entity and the larger one more than that
DwgGreedyWitness ==
    /\ gen = "dwgpair" /\ pc = "done"
    /\ targetSize < loc.target2
    /\ out.countA >= 1 /\ out.countB > out.countA

(***************************************************************************)
(* PdfGenerator.Generate                                                   *)
(***************************************************************************)

maxIterations == 20
tolerance == 5
minAdjustmentChars == 1
directAdjustThreshold == 100

Abs(x) == IF x < 0 THEN -x ELSE x

\* int64(a / b) for b > 0: the quotient cut towards zero
TruncDiv(a, b) == IF a >= 0 THEN a \div b ELSE -((-a) \div b)

\* the PDF writer of the library, seen from Generate: a document without text
\* has PdfBaseSize bytes; text costs PdfPerChar bytes a character and
\* PdfLineCost bytes for every started line of PdfLineChars characters, and
\* the embedded font subset of a random text adds nothing or PdfJitter bytes
PdfBaseSize == 60
PdfPerChar == 2
PdfLineChars == 8
PdfLineCost == 14
PdfJitter == 3
PdfMaxExtra == 45
PdfFarExtra == 150

\* the sizes generateAndGetSize(numChars) can measure
generateAndGetSize(numChars) ==
    IF numChars <= 0 THEN {PdfBaseSize}
    ELSE LET lines == (numChars + PdfLineChars - 1) \div PdfLineChars
         IN  { PdfBaseSize + PdfPerChar * numChars + PdfLineCost * lines + j
                  : j \in {0, PdfJitter} }

PdfTargets ==
    ((PdfBaseSize - 1)..(PdfBaseSize + PdfMaxExtra)) \cup {PdfBaseSize + PdfFarExtra}

PdfInit == StartCall("pdf", PdfTargets)

\* the base size, the two early returns, and the first estimate
PdfMeasureBase ==
    /\ gen = "pdf" /\ pc = "start"
    /\ \E initialBaseSize \in generateAndGetSize(0) :
          IF targetSize < initialBaseSize
          THEN /\ err' = "less than minimum possible size" /\ pc' = "done"
               /\ UNCHANGED <<fs, loc, out>>
          ELSE IF targetSize = initialBaseSize
          THEN /\ fs' = [fs EXCEPT !["path"] = File(initialBaseSize)]
               /\ out' = [kind |-> "pdf", stop |-> "base", measured |-> initialBaseSize]
               /\ err' = "" /\ pc' = "done" /\ loc' = loc
          ELSE /\ loc' = [i |-> 0,
                          currentChars |-> Max(targetSize - initialBaseSize, 1),
                          lastActualSize |-> -1, actualSize |-> -1,
                          perCharNum |-> 1, perCharDen |-> 1,
                          finalChars |-> Max(targetSize - initialBaseSize, 1),
                          stop |-> ""]
               /\ pc' = "iterate" /\ UNCHANGED <<fs, err, out>>
    /\ UNCHANGED <<gen, targetSize, run, firstLen>>

\* one pass of the refinement loop for a measured size
pdfIteration(l, target, actualSize) ==
    LET diff  == target - actualSize
        last  == l.lastActualSize
        seen  == [l EXCEPT !.finalChars = l.currentChars, !.actualSize = actualSize]
        cba   == actualSize - PdfBaseSize
        \* dynamicBytesPerChar as a fraction, never below 0.1
        fresh == cba > 0 /\ l.currentChars > 0
        num   == IF fresh THEN (IF 10 * cba <= l.currentChars THEN 1 ELSE cba)
                 ELSE l.perCharNum
        den   == IF fresh THEN (IF 10 * cba <= l.currentChars THEN 10 ELSE l.currentChars)
                 ELSE l.perCharDen
        est   == TruncDiv(diff * den * 95, num * 100)
        adj   == IF Abs(diff) < directAdjustThreshold
                 THEN Min(2 * directAdjustThreshold, Max(-2 * directAdjustThreshold, diff))
                 ELSE IF diff > 0 THEN Max(minAdjustmentChars, est)
                 ELSE Min(-minAdjustmentChars, est)
        moved == Max(l.currentChars + adj, 0)
        newChars == IF moved # l.currentChars THEN moved
                    ELSE IF diff > 0 THEN moved + 1
                    ELSE IF diff < 0 /\ moved > 0 THEN moved - 1
                    ELSE moved
    IN  IF Abs(diff) <= tolerance THEN [seen EXCEPT !.stop = "tolerance"]
        ELSE IF /\ last # -1
                /\ \/ diff > 0 /\ target - last < 0
                   \/ diff < 0 /\ target - last > 0
                /\ Abs(diff) < tolerance * 5
             THEN [seen EXCEPT !.stop = "oscillation"]
        ELSE IF last # -1 /\ Abs(actualSize - last) < 10 /\ Abs(diff) > tolerance
             THEN [seen EXCEPT !.stop = "minimal change"]
        ELSE IF newChars = l.currentChars
             THEN [seen EXCEPT !.stop = "no step", !.perCharNum = num, !.perCharDen = den]
        ELSE [i |-> l.i + 1, currentChars |-> newChars,
              lastActualSize |-> actualSize, actualSize |-> actualSize,
              perCharNum |-> num, perCharDen |-> den,
              finalChars |-> IF l.i = maxIterations - 1 THEN newChars ELSE l.currentChars,
              stop |-> IF l.i = maxIterations - 1 THEN "cap" ELSE ""]

\* the loop body: generate with currentChars, measure, stop or adjust
PdfIterate ==
    /\ gen = "pdf" /\ pc = "iterate"
    /\ \E actualSize \in generateAndGetSize(loc.currentChars) :
          /\ loc' = pdfIteration(loc, targetSize, actualSize)
          /\ pc' = IF loc'.stop # "" THEN "final" ELSE "iterate"
    /\ UNCHANGED <<gen, targetSize, err, fs, out, run, firstLen>>

\* the final generation with the characters of the last attempt; nil
PdfFinal ==
    /\ gen = "pdf" /\ pc = "final"
    /\ \E finalSize \in generateAndGetSize(loc.finalChars) :
          /\ fs' = [fs EXCEPT !["path"] = File(finalSize)]
          /\ out' = [kind |-> "pdf", stop |-> loc.stop, measured |-> loc.actualSize]
    /\ err' = "" /\ pc' = "done"
    /\ UNCHANGED <<gen, targetSize, loc, run, firstLen>>

PdfNext == PdfMeasureBase \/ PdfIterate \/ PdfFinal

SpecPdf == PdfInit /\ [][PdfNext]_vars

\* C20: when the refinement stops without a measured size within tolerance
\* of the target Generate reports a failure, and Generate returns nil only
\* with a file of exactly the target length
PdfFailureReported ==
    (gen = "pdf" /\ pc = "done") =>
        /\ (out.kind = "pdf" /\ out.stop \in {"cap", "oscillation", "minimal change", "no step"}
              /\ Abs(targetSize - out.measured) > tolerance) => err # ""
        /\ err = "" => fs["path"] = File(targetSize)

(***************************************************************************)
(* XlsxGenerator.Generate, DocxGenerator.Generate and utils.PadZipExtend   *)
(***************************************************************************)

padName == "pad.bin"
padNameLen == 7

\* utils.ZipEntryOverhead(): an archive with the empty STORE entry pad.bin
padOverhead ==
    zipArchiveLen([name |-> padName, nameLen |-> padNameLen, method |-> "store",
                   modified |-> FALSE], Wide(0, 0)).lo

\* the serializers, seen from Generate: an archive with no unit beyond the
\* skeleton has OfficeSkeleton bytes, a unit (cell, paragraph) of random text
\* costs OfficeUnit bytes, and the compression of the random text adds up to
\* OfficeJitter bytes to an archive that holds random text
OfficeSkeleton == 300
OfficeUnit == 9
OfficeJitter == 2
OfficeMaxBelow == 2
OfficeMaxExtra == 30

\* sizes an archive with units units of random text can have
serializedLens(units) ==
    { OfficeSkeleton + OfficeUnit * units + j : j \in 0..OfficeJitter }

\* xlsx: the probe file with the one fixed cell A1
xlsxMinimal == OfficeSkeleton

\* xlsx: the probe file with avgCellCount cells of fixed text
avgCellCount == 10
xlsxAvgLen == OfficeSkeleton + OfficeUnit * avgCellCount

OfficeTargets ==
    (OfficeSkeleton + padOverhead - OfficeMaxBelow)..(OfficeSkeleton + padOverhead + OfficeMaxExtra)

\* utils.PadZipExtend(inPath, targetSize) on a file of orig bytes: the entries
\* copied, then pad.bin with needed zero bytes (none when needed <= 0); the
\* end record of the archive is in orig already
PadZipExtend(orig, target) ==
    LET needed == target - orig - padOverhead
    IN  IF orig > target THEN [err |-> "file is larger than target", len |-> orig]
        ELSE [err |-> "", len |-> orig + (padOverhead - zipDirectoryEndLen) + Max(needed, 0)]

OfficeInit(g) ==
    /\ gen = g /\ pc = "start" /\ targetSize \in OfficeTargets /\ err = ""
    /\ fs = EmptyFs /\ out = NoOut /\ run = 1 /\ firstLen = 0
    /\ loc = [minimal |-> 0, cnt |-> 0, finalCount |-> 0, accepted |-> 0,
              probeFailed |-> FALSE, scanned |-> 0, noFit |-> FALSE]

\* the hand-over of the file at path to PadZipExtend, and the return
padAndReturn(handed, accepted, fellBack) ==
    LET r == PadZipExtend(handed, targetSize)
    IN  /\ fs' = [fs EXCEPT !["path"] = File(r.len)]
        /\ err' = r.err
        /\ out' = [kind |-> "office", handed |-> handed, accepted |-> accepted,
                   fellBack |-> fellBack]
        /\ pc' = "done"

\* xlsx: the minimal probe, the feasibility check, the exact-minimum case
XlsxMinimalProbe ==
    /\ gen = "xlsx" /\ pc = "start"
    /\ \E ok \in BOOLEAN :
          IF ~ok
          THEN /\ err' = "failed to write minimal xlsx" /\ pc' = "done"
               /\ loc' = [loc EXCEPT !.probeFailed = TRUE]
               /\ UNCHANGED <<fs, out>>
          ELSE IF xlsxMinimal + padOverhead > targetSize
          THEN /\ err' = "too small" /\ pc' = "done" /\ UNCHANGED <<fs, loc, out>>
          ELSE IF targetSize = xlsxMinimal + padOverhead
          THEN /\ padAndReturn(xlsxMinimal, xlsxMinimal, FALSE)
               /\ loc' = [loc EXCEPT !.minimal = xlsxMinimal]
          ELSE /\ loc' = [loc EXCEPT !.minimal = xlsxMinimal]
               /\ pc' = "avg" /\ UNCHANGED <<fs, err, out>>
    /\ UNCHANGED <<gen, targetSize, run, firstLen>>

\* xlsx: the average-cell probe and the estimate; a failed write leaves what
\* it wrote of the probe in the buffer and is only warned about
XlsxAvgProbe ==
    /\ gen = "xlsx" /\ pc = "avg"
    /\ \E ok \in BOOLEAN :
       \E avgSize \in IF ok THEN {xlsxAvgLen} ELSE {0, xlsxAvgLen \div 2} :
          LET cell     == TruncDiv(avgSize - loc.minimal, avgCellCount)
              avgCell  == IF cell < 1 THEN 1 ELSE cell
              usable   == Max(targetSize - padOverhead - loc.minimal, 0)
              estCount == Max(usable \div avgCell, 1)
          IN  loc' = [loc EXCEPT !.cnt = estCount,
                                 !.probeFailed = @ \/ ~ok]
    /\ pc' = "scan"
    /\ UNCHANGED <<gen, targetSize, err, fs, out, run, firstLen>>

\* xlsx: one count of the downward scan, written to a buffer and measured
XlsxScan ==
    /\ gen = "xlsx" /\ pc = "scan" /\ loc.cnt >= 1
    /\ \E ok \in BOOLEAN, currentSize \in serializedLens(loc.cnt) :
          IF ~ok
          THEN /\ err' = "error writing xlsx buffer" /\ pc' = "done"
               /\ loc' = [loc EXCEPT !.scanned = @ + 1]
          ELSE IF currentSize + padOverhead <= targetSize
          THEN /\ loc' = [loc EXCEPT !.finalCount = loc.cnt, !.accepted = currentSize,
                                     !.scanned = @ + 1]
               /\ pc' = "write" /\ err' = err
          ELSE /\ loc' = [loc EXCEPT !.cnt = @ - 1, !.scanned = @ + 1,
                                     !.noFit = (loc.cnt = 1)]
               /\ pc' = "scan" /\ err' = err
    /\ UNCHANGED <<gen, targetSize, fs, out, run, firstLen>>

\* xlsx: no count fits, the minimal file again
XlsxFallback ==
    /\ gen = "xlsx" /\ pc = "scan" /\ loc.cnt < 1
    /\ \E ok \in BOOLEAN :
          IF ok
          THEN /\ loc' = [loc EXCEPT !.accepted = xlsxMinimal]
               /\ pc' = "write" /\ err' = err
          ELSE /\ err' = "failed to write final minimal xlsx" /\ pc' = "done" /\ loc' = loc
    /\ UNCHANGED <<gen, targetSize, fs, out, run, firstLen>>

\* xlsx: the kept buffer written to path, then PadZipExtend
XlsxWriteAndPad ==
    /\ gen = "xlsx" /\ pc = "write"
    /\ padAndReturn(loc.accepted, loc.accepted, loc.finalCount = 0)
    /\ UNCHANGED <<gen, targetSize, loc, run, firstLen>>

XlsxNext == XlsxMinimalProbe \/ XlsxAvgProbe \/ XlsxScan \/ XlsxFallback \/ XlsxWriteAndPad

SpecXlsx == OfficeInit("xlsx") /\ [][XlsxNext]_vars

\* C21: when a cost probe of the xlsx generator fails to serialize, Generate
\* returns an error without planning, scanning or writing to the output path
XlsxProbeFailureAborts ==
    (gen = "xlsx" /\ loc.probeFailed) =>
        /\ pc = "done" /\ err # ""
        /\ loc.scanned = 0 /\ loc.cnt = 0
        /\ ~fs["path"].exists

\* docx: the one-paragraph probe, the feasibility check, the five-paragraph
\* probe and the estimate
DocxProbe ==
    /\ gen = "docx" /\ pc = "start"
    /\ \E minimal \in serializedLens(1), five \in serializedLens(5) :
          IF minimal + padOverhead > targetSize
          THEN /\ err' = "too small" /\ pc' = "done" /\ loc' = loc
          ELSE LET para     == TruncDiv(five - minimal, 5)
                   avgPara  == IF para < 1 THEN 1 ELSE para
                   est      == TruncDiv(targetSize - padOverhead - minimal, avgPara)
                   estCount == IF est < 1 THEN 1 ELSE est
               IN  /\ loc' = [loc EXCEPT !.minimal = minimal, !.cnt = estCount]
                   /\ pc' = "scan" /\ err' = err
    /\ UNCHANGED <<gen, targetSize, fs, out, run, firstLen>>

\* docx: one count of the downward scan, written to path and measured there
DocxScan ==
    /\ gen = "docx" /\ pc = "scan" /\ loc.cnt >= 1
    /\ \E size \in serializedLens(loc.cnt) :
          /\ fs' = [fs EXCEPT !["path"] = File(size)]
          /\ IF size + padOverhead <= targetSize
             THEN /\ loc' = [loc EXCEPT !.finalCount = loc.cnt, !.accepted = size,
                                        !.scanned = @ + 1]
                  /\ pc' = "write"
             ELSE /\ loc' = [loc EXCEPT !.cnt = @ - 1, !.scanned = @ + 1,
                                        !.noFit = (loc.cnt = 1)]
                  /\ pc' = "scan"
    /\ UNCHANGED <<gen, targetSize, err, out, run, firstLen>>

\* docx: the scan ended with finalCount = 0
DocxNoFit ==
    /\ gen = "docx" /\ pc = "scan" /\ loc.cnt < 1
    /\ err' = "could not fit even one paragraph" /\ pc' = "done"
    /\ UNCHANGED <<gen, targetSize, fs, loc, out, run, firstLen>>

\* docx: path written again with finalCount paragraphs of new random text,
\* then PadZipExtend
DocxRewriteAndPad ==
    /\ gen = "docx" /\ pc = "write"
    /\ \E size \in serializedLens(loc.finalCount) :
          padAndReturn(size, loc.accepted, FALSE)
    /\ UNCHANGED <<gen, targetSize, loc, run, firstLen>>

DocxNext == DocxProbe \/ DocxScan \/ DocxNoFit \/ DocxRewriteAndPad

OfficeNext == XlsxNext \/ DocxNext

SpecOffice == (OfficeInit("docx") \/ OfficeInit("xlsx")) /\ [][OfficeNext]_vars

\* C22: the file docx and xlsx hand to PadZipExtend is the candidate that was
\* measured and accepted, its length plus the padding overhead is within the
\* target, and the padded file is no longer than the target
OfficeNeverOvershoots ==
    (pc = "done" /\ out # NoOut /\ out.kind = "office") =>
        /\ out.handed = out.accepted
        /\ out.handed + padOverhead <= targetSize
        /\ fs["path"].len <= targetSize

\* C23: when no count from the estimate down to 1 fits, docx and xlsx pad the
\* minimal skeleton and return no error
OfficeFallsBackToMinimal ==
    (pc = "done" /\ loc.noFit /\ err # "failed to write final minimal xlsx") =>
        /\ err = ""
        /\ out # NoOut /\ out.kind = "office" /\ out.fellBack
        /\ fs["path"].exists

(***************************************************************************)
(* DWGGenerator.Generate: the range of the block record rewrite            *)
(***************************************************************************)

\* the bytes of the objects section the count-0 block record occupies
placeholderRange ==
    LET objPos == offsetOf(tablesWritten.handleIndex, modelSpaceBlockHdl)
    IN  (objPos + 1)..(objPos + Len(blockRecord(0)))

\* C24: the block record rewritten with the final entity count is as long as
\* the count-0 record it replaces, the rewrite changes no byte of the objects
\* section outside the range of that record, and the section keeps its length
DwgRewriteInPlace ==
    (gen = "dwgcount" /\ pc = "done") =>
        /\ Len(blockRecord(out.entityCount)) = Len(blockRecord(0))
        /\ Len(out.objectsSec) = Len(loc.objectsSec)
        /\ \A i \in 1..Len(loc.objectsSec) :
              i \notin placeholderRange => out.objectsSec[i] = loc.objectsSec[i]

(***************************************************************************)
(* The bit writer of DWGGenerator.Generate on its own                      *)
(***************************************************************************)

BitsMaxWidth == 12
BitsMaxOps == 2

\* values with low and high bits set and clear at the byte boundaries
BitsValues == {0, 1, 2, 5, 170, 255, 256, 2748, 3501}

\* bw := &bitWriter{}
emptyWriter == [buf |-> <<>>, bitPos |-> 0]

BitsInit ==
    /\ gen = "bits" /\ pc = "run" /\ targetSize = 0 /\ err = ""
    /\ fs = EmptyFs /\ out = NoOut /\ run = 1 /\ firstLen = 0
    /\ loc = [w |-> emptyWriter, before |-> emptyWriter, op |-> "none",
              value |-> 0, bits |-> 0, ops |-> 0]

\* one call writeBits(value, bits)
BitsWrite ==
    /\ gen = "bits" /\ pc = "run" /\ loc.ops < BitsMaxOps
    /\ \E value \in BitsValues, bits \in 1..BitsMaxWidth :
          loc' = [w |-> writeBits(loc.w, value, bits), before |-> loc.w,
                  op |-> "write", value |-> value, bits |-> bits, ops |-> loc.ops + 1]
    /\ UNCHANGED <<gen, pc, targetSize, err, fs, out, run, firstLen>>

\* one call flushByteAlign()
BitsFlush ==
    /\ gen = "bits" /\ pc = "run" /\ loc.ops < BitsMaxOps
    /\ loc' = [w |-> flushByteAlign(loc.w), before |-> loc.w,
               op |-> "flush", value |-> 0, bits |-> 0, ops |-> loc.ops + 1]
    /\ UNCHANGED <<gen, pc, targetSize, err, fs, out, run, firstLen>>

BitsNext == BitsWrite \/ BitsFlush

SpecBits == BitsInit /\ [][BitsNext]_vars

\* one bit written behind the cursor, the most significant free bit of the
\* current byte first
oneBit(w, b) ==
    LET w1 == IF w.bitPos = 0 THEN [w EXCEPT !.buf = Append(@, 0)] ELSE w
    IN  [buf    |-> [w1.buf EXCEPT ![Len(w1.buf)] = @ + b * Pow2(7 - w1.bitPos)],
         bitPos |-> (w1.bitPos + 1) % 8]

\* the low bits bits of value written one at a time, most significant first
RECURSIVE msbFirst(_, _, _)
msbFirst(w, value, bits) ==
    IF bits = 0 THEN w
    ELSE msbFirst(oneBit(w, (value \div Pow2(bits - 1)) % 2), value, bits - 1)

\* C25: writeBits(v, n) appends the low n bits of v most significant bit
\* first, as writing the n bits one at a time does, and leaves the cursor at
\* (c + n) mod 8
WriteBitsMsbFirst ==
    (gen = "bits" /\ loc.op = "write") =>
        /\ loc.w = msbFirst(loc.before, loc.value, loc.bits)
        /\ loc.w.bitPos = (loc.before.bitPos + loc.bits) % 8

\* C26: flushByteAlign leaves the buffer as long as it was and its bytes as
\* they were, and the cursor at 0
FlushKeepsLength ==
    (gen = "bits" /\ loc.op = "flush") =>
        /\ Len(loc.w.buf) = Len(loc.before.buf)
        /\ loc.w.buf = loc.before.buf
        /\ loc.w.bitPos = 0

(***************************************************************************)
(* DWGGenerator.Generate: the section directory and the file layout        *)
(***************************************************************************)

\* the 108-byte key of the header directory
xorKey ==
    <<41, 35, 190, 132, 225, 108, 214, 174, 82, 144, 73, 241, 241, 187, 233, 235, 179, 166,
      219, 60, 135, 12, 62, 153, 36, 94, 13, 28, 6, 183, 71, 222, 179, 18, 77, 200,
      67, 187, 139, 166, 31, 3, 90, 125, 9, 56, 37, 31, 93, 212, 203, 252, 150, 245,
      69, 59, 19, 13, 137, 10, 28, 219, 174, 50, 32, 154, 80, 238, 64, 120, 54, 253,
      18, 73, 50, 246, 158, 125, 73, 220, 173, 79, 20, 242, 68, 64, 102, 208, 107, 196,
      48, 183, 50, 59, 161, 34, 246, 34, 145, 157, 225, 139, 31, 218, 176, 202, 153, 2>>

\* a ^ b on bytes
RECURSIVE BitXor(_, _)
BitXor(a, b) ==
    IF a = 0 THEN b
    ELSE IF b = 0 THEN a
    ELSE (IF (a % 2) # (b % 2) THEN 1 ELSE 0) + 2 * BitXor(a \div 2, b \div 2)

\* binary.LittleEndian.PutUint32
putUint32(v) == <<v % 256, (v \div 256) % 256, (v \div 65536) % 256, (v \div 16777216) % 256>>

headerDirLen == 108
dirEntryLen == 14

hashHeader == 850920409
hashClasses == 1062470751
hashObjects == 1733035433
hashHandles == 1064174672
hashFreeSpace == 2011301407
hashPreview == 1084884083
hashSummary == 1903822351

\* n bytes 0x00
zeroBytes(n) == [i \in 1..n |-> 0]

\* the four sections of fixed content
summarySec == startSentinel \o zeroBytes(128 - 16 - Len(startSentinel)) \o endSentinel
previewSec == startSentinel \o zeroBytes(1024 - 16 - Len(startSentinel)) \o endSentinel
classesSec == startSentinel \o endSentinel
headerSec == startSentinel \o endSentinel

\* the free-space section with pad zero bytes
freeSec(pad) == startSentinel \o zeroBytes(pad) \o endSentinel

\* writeDirEntry(hash, offset, size, 0, 1)
writeDirEntry(hash, offset, size) ==
    putUint32(hash) \o putUint32(offset) \o putUint32(size) \o <<0, 1>>

\* the directory before the XOR: seven entries and the zero bytes behind them
plainDirectory(o) ==
    LET objectsSize == Len(o.objectsSec)
        handlesSize == Len(o.handlesSec)
        entries ==
            writeDirEntry(hashHeader, baseOffset + previewSize + summarySize, headerVarsSize)
            \o writeDirEntry(hashClasses,
                             baseOffset + previewSize + summarySize + headerVarsSize,
                             classesSize)
            \o writeDirEntry(hashObjects,
                             baseOffset + previewSize + summarySize + headerVarsSize
                             + classesSize, objectsSize)
            \o writeDirEntry(hashHandles,
                             baseOffset + previewSize + summarySize + headerVarsSize
                             + classesSize + objectsSize, handlesSize)
            \o writeDirEntry(hashFreeSpace,
                             baseOffset + previewSize + summarySize + headerVarsSize
                             + classesSize + objectsSize + handlesSize, o.freeSize)
            \o writeDirEntry(hashPreview, baseOffset, previewSize)
            \o writeDirEntry(hashSummary, baseOffset + previewSize, summarySize)
    IN  entries \o zeroBytes(headerDirLen - Len(entries))

\* the key applied a second time
xorDirectoryTwice(d) ==
    [i \in 1..Len(d) |-> BitXor(BitXor(d[i], xorKey[i]), xorKey[i])]

\* headerDir[i] ^= xorKey[i]
xorDirectory(d) ==
    [i \in 1..Len(d) |-> BitXor(d[i], xorKey[i])]

\* the directory as written behind the 128-byte header
headerDir(o) == xorDirectory(plainDirectory(o))

\* the sections in the order of the file.Write calls
writtenSections(o) ==
    <<previewSec, summarySec, headerSec, classesSec, o.objectsSec, o.handlesSec,
      freeSec(o.padBytes)>>

\* hashes of the sections in the order of the file
layoutHashes ==
    <<hashPreview, hashSummary, hashHeader, hashClasses, hashObjects, hashHandles,
      hashFreeSpace>>

\* the file position at which the k-th written section starts
RECURSIVE sectionStart(_, _)
sectionStart(secs, k) ==
    IF k = 1 THEN baseOffset ELSE sectionStart(secs, k - 1) + Len(secs[k - 1])

\* entry j of a directory read from the file: the key removed, then the
\* four bytes of each little-endian field
readDirEntry(dir, j) ==
    LET plain == [i \in 1..Len(dir) |-> BitXor(dir[i], xorKey[i])]
        at    == (j - 1) * dirEntryLen
    IN  [hash   |-> SubSeq(plain, at + 1, at + 4),
         offset |-> SubSeq(plain, at + 5, at + 8),
         size   |-> SubSeq(plain, at + 9, at + 12)]

\* C27: the directory read back from the file names every section at its
\* file position with its length; the sections follow each other from offset
\* 236 in the order preview, summary, header variables, classes, objects,
\* handles, free space, each between the two sentinels; the last one ends at
\* the end of the file; the seven entries fit into the 108 bytes
DwgDirectoryMatchesLayout ==
    (gen = "dwg" /\ pc = "done" /\ err = "") =>
        LET secs == writtenSections(out)
            dir  == headerDir(out)
        IN  /\ Len(dir) = headerDirLen
            /\ 7 * dirEntryLen <= headerDirLen
            /\ \A k \in 1..7 :
                  /\ \E j \in 1..7 :
                        readDirEntry(dir, j) =
                            [hash   |-> putUint32(layoutHashes[k]),
                             offset |-> putUint32(sectionStart(secs, k)),
                             size   |-> putUint32(Len(secs[k]))]
                  /\ SubSeq(secs[k], 1, 16) = startSentinel
                  /\ SubSeq(secs[k], Len(secs[k]) - 15, Len(secs[k])) = endSentinel
            /\ sectionStart(secs, 1) = 236
            /\ sectionStart(secs, 7) + Len(secs[7]) = fs["path"].len

DwgDirectoryWitness ==
    /\ gen = "dwg" /\ pc = "done" /\ err = ""
    /\ out.entityCount >= 1
    /\ readDirEntry(headerDir(out), 5).hash = putUint32(hashFreeSpace)
    /\ readDirEntry(headerDir(out), 5).size = putUint32(32 + out.padBytes)

(***************************************************************************)
(* utils.PadZipFile                                                        *)
(***************************************************************************)

maxComment == 65535

\* lengths of the archive before the call: the end record alone and up to
\* PadZipMaxBody bytes of entries and directory in front of it
PadZipMaxBody == 9

PadZipSizes == zipDirectoryEndLen..(zipDirectoryEndLen + PadZipMaxBody)

\* distances of the target from the archive length
PadZipDiffs == {-300, -1, 0, 1, 2, 255, 256, 257, 65534, 65535, 65536, 65537, 70000}

\* binary.LittleEndian.PutUint16(lenBuf[:], uint16(diff))
putUint16(diff) == <<(diff % 65536) % 256, (diff % 65536) \div 256>>

\* PadZipFile with the comment written whatever its length
PadZipFileUnbounded(currSize, target) ==
    IF currSize = target THEN [err |-> "", writes |-> <<>>]
    ELSE IF currSize > target
    THEN [err |-> "file already larger than target size", writes |-> <<>>]
    ELSE LET diff == target - currSize
         IN  [err |-> "",
              writes |-> <<[at |-> currSize, bytes |-> "X", count |-> diff],
                           [at |-> currSize - 2, bytes |-> putUint16(diff), count |-> 2]>>]

\* PadZipFile(zipPath, targetSize) on a file of currSize bytes: the error it
\* returns and the writes it makes, each at an offset of the file
PadZipFile(currSize, target) ==
    IF currSize = target THEN [err |-> "", writes |-> <<>>]
    ELSE IF currSize > target
    THEN [err |-> "file already larger than target size", writes |-> <<>>]
    ELSE LET diff == target - currSize
         IN  IF diff <= maxComment
             THEN [err |-> "",
                   writes |-> <<[at |-> currSize, bytes |-> "X", count |-> diff],
                                [at |-> currSize - 2, bytes |-> putUint16(diff), count |-> 2]>>]
             ELSE [err |-> "padding >65KB not implemented", writes |-> <<>>]

\* length of a file of n bytes after the writes
RECURSIVE lenAfter(_, _)
lenAfter(n, writes) ==
    IF writes = <<>> THEN n
    ELSE lenAfter(Max(n, Head(writes).at + Head(writes).count), Tail(writes))

PadZipInit ==
    /\ gen = "padzip" /\ pc = "start" /\ err = ""
    /\ out = NoOut /\ run = 1 /\ firstLen = 0
    /\ \E c \in PadZipSizes, d \in PadZipDiffs :
          /\ c + d >= 0
          /\ targetSize = c + d
          /\ fs = [EmptyFs EXCEPT !["path"] = File(c)]
          /\ loc = [currSize |-> c]

PadZipCall ==
    /\ gen = "padzip" /\ pc = "start"
    /\ LET r == PadZipFile(loc.currSize, targetSize)
       IN  /\ err' = r.err
           /\ out' = [kind |-> "padzip", writes |-> r.writes]
           /\ fs' = [fs EXCEPT !["path"] = File(lenAfter(loc.currSize, r.writes))]
    /\ pc' = "done"
    /\ UNCHANGED <<gen, targetSize, loc, run, firstLen>>

SpecPadZip == PadZipInit /\ [][PadZipCall]_vars

fillOverhead == currentLen(tablesWritten)

\* C29: an iteration of the fill loop that does not stop appends a record of
\* at least one byte, so the objects section grows; the estimated length is
\* below the target before it and not above the target after it, and the
\* number of iterations made never exceeds the target minus the fixed overhead
DwgFillTerminates ==
    [][(gen = "dwg" /\ pc = "fill" /\ pc' = "fill") =>
          /\ Len(loc'.objectsSec) >= Len(loc.objectsSec) + 1
          /\ currentLen(loc) < targetSize
          /\ currentLen(loc') <= targetSize
          /\ targetSize - currentLen(loc') < targetSize - currentLen(loc)
          /\ loc'.entityCount = loc.entityCount + 1
          /\ loc'.entityCount <= targetSize - fillOverhead]_vars

DwgFillWitness ==
    /\ gen = "dwg" /\ pc = "fill"
    /\ loc.entityCount >= 2
    /\ Len(loc.objectsSec) > Len(tablesWritten.objectsSec)

(***************************************************************************)
(* utils.ParseSize: the range of the product                               *)
(***************************************************************************)

\* a six-limb number that an int64 holds
fitsInt64(x) == x[5] = 0 /\ x[6] = 0 /\ x[4] < 32768

\* C30: for digits with a valid suffix, a value returned without error is the
\* exact product n * m, and a product that an int64 does not hold gives an
\* error
ParseSizeExactOrError ==
    (/\ gen = "parse" /\ pc = "done"
     /\ loc.lead = <<>> /\ loc.numeral # <<>>
     /\ ToUpper(loc.tail) \in DOMAIN sizeSuffixPower) =>
        LET exact == exactProduct(loc.numeral, sizeSuffixPower[ToUpper(loc.tail)])
        IN  IF fitsInt64(exact)
            THEN err = "" => out.value \o <<0, 0>> = exact
            ELSE err # ""

====
